---------------------------- MODULE Spec2Model ----------------------------
(***************************************************************************)
(* A model of prometheus_givenergy: the polling cycle of                   *)
(* PrometheusGivEnergy (report, fetchMetrics, _transaction, printMetrics), *)
(* the wire codec (GivEnergyRequest, GivEnergyResponse) and the register   *)
(* conversion engine (ModbusRegisterConversion.metric with the two         *)
(* register_definition tables).                                           *)
(*                                                                         *)
(* Bytes are naturals in 0..255 and byte strings are sequences of them.    *)
(* Python exceptions are modelled by their class name in a string.         *)
(***************************************************************************)
EXTENDS Integers, Sequences, FiniteSets, TLC

VARIABLES
    \* ---- one PrometheusGivEnergy instance and the files it writes ----
    cls,        \* the module whose PrometheusGivEnergy the instance is: "prometheus.py" or "__init__.py"
    pc,         \* position of the control flow inside report()
    cycle,      \* number of report() calls started on the instance
    metrics,    \* self.metrics
    carried,    \* len(self.metrics) when the current report() call started
    tmpFile,    \* content of prom_file + '.tmp' ("absent" or a sequence of lines)
    promFile,   \* content of prom_file ("absent" or a sequence of lines)
    error,      \* exception class that ended the current cycle, or "none"
    fetched,    \* fetchMetrics() of the current cycle returned normally
    printed,    \* printMetrics() of the current cycle returned normally
    \* ---- fetchMetrics / _transaction ----
    blk,        \* index (0..5) of the block of the polling plan being handled
    request,    \* the GivEnergyRequest of the current transaction
    sent,       \* the messages handed to sendall in this cycle, in order
    header,     \* bytes returned by s.recv(header_size)
    size,       \* payload size expected: header length field - 2
    payload,    \* bytes accumulated by the payload loop
    zeroReads,  \* recv calls of the payload loop that returned b''
    response,   \* the decoded GivEnergyResponse
    converted,  \* per block handed to the converter: <<function code, base, last address converted>>
    \* ---- the connection and the inverter behind it ----
    sockOpen,   \* the cycle's socket is open
    wire,       \* response bytes sent by the inverter and not yet received
    peerClosed, \* the inverter closed its end of the stream
    image,      \* which register image the inverter serves in this cycle
    partials,   \* short reads the transport has delivered in this transaction
    \* ---- construction and encoding of one arbitrary request ----
    rqArgs,     \* <<function_code, base_register, register_count>> given to __init__
    rqState,    \* "new", "constructed", "AssertionError" or "encoded"
    rqObj,      \* the GivEnergyRequest object, once constructed
    rqMsg,      \* the result of encode()
    \* ---- one call of metric() on arbitrary arguments ----
    cvTable,    \* the register_definition of the converter: "input", "holding" or "other"
    cvReg,      \* the register argument
    cvRaw,      \* the value the register store holds at cvReg
    cvMore,     \* the value the register store holds at every other address
    cvStore,    \* "full": the store holds every address; "empty": it holds none
    cvState,    \* "new" or "converted"
    cvResult,   \* what metric() did: the exception raised and the list returned
    \* ---- the decoding of one arbitrary response payload ----
    rsData,     \* the payload bytes given to GivEnergyResponse
    rsState,    \* "new" or "decoded"
    rsResult    \* what GivEnergyResponse() did: the exception raised and the object

cycleVars == <<cls, pc, cycle, metrics, carried, tmpFile, promFile, error, fetched, printed,
               blk, request, sent, header, size, payload, zeroReads, response, converted,
               sockOpen, wire, peerClosed, image, partials>>
rqVars == <<rqArgs, rqState, rqObj, rqMsg>>
cvVars == <<cvTable, cvReg, cvRaw, cvMore, cvStore, cvState, cvResult>>
rsVars == <<rsData, rsState, rsResult>>
vars == <<cycleVars, rqVars, cvVars, rsVars>>

(***************************************************************************)
(* Bounds of the model.                                                    *)
(***************************************************************************)
\* report() calls made on one instance
MaxCycles == 2
\* short reads the transport delivers within one transaction
MaxPartials == 2
\* times the payload loop is followed through a recv that returned b''
MaxZeroReads == 2
\* arguments tried for GivEnergyRequest.__init__: function codes 0..MaxFcArg,
\* base registers -1..MaxBaseArg, register counts -1..MaxCountArg
MaxFcArg == 5
MaxBaseArg == 256
MaxCountArg == 256

(***************************************************************************)
(* Byte-level helpers: struct.pack / pymodbus BinaryPayloadBuilder with    *)
(* big-endian byte order.                                                  *)
(***************************************************************************)
Byte == 0..255

\* add_8bit_uint / struct 'B'
U8(v) == <<v>>

\* add_16bit_uint / struct '>H': high byte first
U16BE(v) == <<(v \div 256) % 256, v % 256>>

\* add_64bit_uint with byteorder BIG: eight bytes, most significant first
\* (written for values below 2^32, whose four leading bytes are zero)
U64BE(v) ==
    <<0, 0, 0, 0,
      (v \div 16777216) % 256, (v \div 65536) % 256, (v \div 256) % 256, v % 256>>

\* decode_16bit_uint / struct '>H' on two bytes
FromU16BE(hi, lo) == hi * 256 + lo

RECURSIVE Xor(_, _)
\* bitwise exclusive or of two naturals
Xor(a, b) ==
    IF a = 0 THEN b
    ELSE IF b = 0 THEN a
    ELSE (((a % 2) + (b % 2)) % 2) + 2 * Xor(a \div 2, b \div 2)

(***************************************************************************)
(* CRC-16/MODBUS as crccheck.crc.CrcModbus computes it: width 16, initial  *)
(* value 0xFFFF, input and output reflected, no final xor.  In reflected   *)
(* form the polynomial 0x8005 is 0xA001 and each byte is processed least   *)
(* significant bit first.                                                  *)
(***************************************************************************)
CrcPolyReflected == 40961
CrcInit == 65535

\* one bit: shift right, and xor the polynomial in when a one fell out
CrcShift(crc) ==
    IF crc % 2 = 1 THEN Xor(crc \div 2, CrcPolyReflected) ELSE crc \div 2

\* one byte: xor it into the low byte, then eight bit steps
CrcByte(crc, byte) ==
    LET c0 == Xor(crc, byte)
        c1 == CrcShift(c0)
        c2 == CrcShift(c1)
        c3 == CrcShift(c2)
        c4 == CrcShift(c3)
        c5 == CrcShift(c4)
        c6 == CrcShift(c5)
        c7 == CrcShift(c6)
    IN  CrcShift(c7)

RECURSIVE CrcProcess(_, _)
\* process(bytes): the bytes in order, each from the register the one before left
CrcProcess(crc, bytes) ==
    IF bytes = <<>> THEN crc
    ELSE LET next == CrcByte(crc, Head(bytes))
         IN  IF next \in 0 .. CrcInit THEN CrcProcess(next, Tail(bytes)) ELSE next

\* CrcModbus().process(bytes).final()
CrcModbus(bytes) == CrcProcess(CrcInit, bytes)

(***************************************************************************)
(* class GivEnergyRequest                                                  *)
(***************************************************************************)
\* 'AB1234G567' as ASCII bytes
data_adapter_serial_number == <<65, 66, 49, 50, 51, 52, 71, 53, 54, 55>>
padding == 8
slave_address == 50
FUNC_READ_HOLDING_REGISTERS == 3
FUNC_READ_INPUT_REGISTERS == 4
GIVENERGY_TID == 22873
GIVENERGY_PID == 1
GIVENERGY_UID == 1
GIVENERGY_FID == 2
\* struct.calcsize(">HHHBB")
header_size == 8

\* The three asserts of __init__, in order.
RequestArgsOk_FcUnchecked(function_code, base_register, register_count) ==
    /\ 0 <= base_register /\ base_register <= 255
    /\ 1 <= register_count /\ register_count <= 255 - base_register

RequestArgsOk(function_code, base_register, register_count) ==
    /\ function_code \in {FUNC_READ_HOLDING_REGISTERS, FUNC_READ_INPUT_REGISTERS}
    /\ 0 <= base_register /\ base_register <= 255
    /\ 1 <= register_count /\ register_count <= 255 - base_register

\* GivEnergyRequest(app, function_code, base_register, register_count)
GivEnergyRequest(function_code, base_register, register_count) ==
    [function_code |-> function_code,
     base_register |-> base_register,
     register_count |-> register_count]

NoRequest == [function_code |-> 0, base_register |-> 0, register_count |-> 0]

\* The bytes the CRC is computed over: a fresh builder holding the function
\* code, the base register and the register count.
CrcBytes_WholePayload(req) ==
    data_adapter_serial_number \o U64BE(padding) \o U8(slave_address)
        \o U8(req.function_code) \o U16BE(req.base_register) \o U16BE(req.register_count)

CrcBytes(req) ==
    U8(req.function_code) \o U16BE(req.base_register) \o U16BE(req.register_count)

\* struct.pack(">HHHBB", tid, pid, length, uid, fid)
PackHeader_LengthFirst(tid, pid, length, uid, fid) ==
    U16BE(length) \o U16BE(tid) \o U16BE(pid) \o U8(uid) \o U8(fid)

PackHeader(tid, pid, length, uid, fid) ==
    U16BE(tid) \o U16BE(pid) \o U16BE(length) \o U8(uid) \o U8(fid)

\* The payload built by the second builder of encode().
RequestPayload(req) ==
    data_adapter_serial_number \o U64BE(padding) \o U8(slave_address)
        \o U8(req.function_code)
        \o U16BE(req.base_register) \o U16BE(req.register_count)
        \o U16BE(CrcModbus(CrcBytes(req)))

\* GivEnergyRequest.encode
Encode(req) ==
    LET msg == RequestPayload(req)
    IN  PackHeader(GIVENERGY_TID, GIVENERGY_PID, Len(msg) + 2,
                   GIVENERGY_UID, GIVENERGY_FID) \o msg

\* struct.unpack(">HHHBB", header): fails unless exactly 8 bytes are given
UnpackHeader(h) ==
    IF Len(h) # header_size
    THEN [ok |-> FALSE]
    ELSE [ok |-> TRUE,
          tid |-> FromU16BE(h[1], h[2]), pid |-> FromU16BE(h[3], h[4]),
          length |-> FromU16BE(h[5], h[6]), uid |-> h[7], fid |-> h[8]]

(***************************************************************************)
(* register.py: class Metric and ModbusRegisterConversion.metric           *)
(***************************************************************************)
\* Python values a metric can carry.  A float is kept as the exact quotient
\* that the true division produced it from: (hi * 65536 + num) / den.  The
\* numerator is held in two parts so that a 32-bit value keeps all its bits;
\* hi is 0 for everything that is not built from two registers.
IntValue(n) == [t |-> "int", hi |-> 0, num |-> n, den |-> 1, s |-> <<>>]
FloatValue(n, d) == [t |-> "float", hi |-> 0, num |-> n, den |-> d, s |-> <<>>]
StrValue(chars) == [t |-> "str", hi |-> 0, num |-> 0, den |-> 1, s |-> chars]
\* the float (high << 16 | low) / d of two 16-bit words
WideFloatValue(high, low, d) == [t |-> "float", hi |-> high, num |-> low, den |-> d, s |-> <<>>]

\* Metric(name, value, unit, prom_type)
Metric(name, value, unit, prom_type) ==
    [name |-> name, value |-> value, unit |-> unit, prom_type |-> prom_type]

\* rd.get(key, default)
Get(rd, key, default) == IF key \in DOMAIN rd THEN rd[key] ELSE default

\* _scaleValue: true division
ScaleValue(v, scale) == FloatValue(v, scale)

\* v = v<<16 | register_store[more], then _scaleValue(v, scale)
ScaleValue32_LowFirst(high, low, scale) == WideFloatValue(low, high, scale)

ScaleValue32(high, low, scale) == WideFloatValue(high, low, scale)

HexChars == <<"0", "1", "2", "3", "4", "5", "6", "7",
              "8", "9", "a", "b", "c", "d", "e", "f">>

\* f'{v:04x}' for a 16-bit value
Hex04(v) ==
    <<HexChars[((v \div 4096) % 16) + 1], HexChars[((v \div 256) % 16) + 1],
      HexChars[((v \div 16) % 16) + 1], HexChars[(v % 16) + 1]>>

\* struct.unpack('h', struct.pack('H', v))[0]
Int16_NoWrap(v) == v

Int16(v) == IF v >= 32768 THEN v - 65536 ELSE v

\* A result of metric(): the exception raised ("none" when it returned) and
\* the list returned.
Returned(ms) == [exc |-> "none", metrics |-> ms]
Raised(e) == [exc |-> e, metrics |-> <<>>]

\* The loop of the ASCII branch: each part is read from the store and decoded
\* as two ASCII characters; the decoded text is dropped and v stays [].
RECURSIVE AsciiParts(_, _)
AsciiParts(parts, store) ==
    IF parts = <<>> THEN "none"
    ELSE LET part == Head(parts)
         IN  IF part \notin DOMAIN store THEN "KeyError"
             ELSE IF store[part] \div 256 > 127 \/ store[part] % 256 > 127
                  THEN "UnicodeDecodeError"
                  ELSE AsciiParts(Tail(parts), store)

\* BOOL branch: the validity check of the raw value
BoolValid_AnyNonZero(v, true_value) == TRUE

BoolValid(v, true_value) == v \in {0, true_value}

\* self.register_definition[register] finds an entry
Defined_ZeroIsMissing(table, register) == register >= 1 /\ register + 1 \in DOMAIN table

Defined(table, register) == register + 1 \in DOMAIN table

\* 'cont' in rd or 'unknown' in rd
IsSkipped_UnknownOnly(rd) == "unknown" \in DOMAIN rd

IsSkipped_ContOnly(rd) == "cont" \in DOMAIN rd

IsSkipped(rd) == "cont" \in DOMAIN rd \/ "unknown" \in DOMAIN rd

\* divmod(v, d) for non-negative v
DivMod_Swapped(v, d) == <<v % d, v \div d>>

DivMod(v, d) == <<v \div d, v % d>>

\* ModbusRegisterConversion.metric(register, register_store), for the
\* converter whose register_definition is `table` (a sequence: address a is
\* held at index a + 1) and a register store `store` (a function from the
\* addresses it holds to their values).
metric(table, register, store) ==
    IF ~Defined(table, register) THEN Raised("KeyError")
    ELSE
    LET rd == table[register + 1] IN
    IF IsSkipped(rd) THEN Returned(<<>>)
    ELSE IF "name" \notin DOMAIN rd THEN Raised("KeyError")
    ELSE
    LET name == rd.name
        rtype == Get(rd, "type", "UINT16")
        scale == Get(rd, "scaling", 1)
        unit == Get(rd, "unit", "")
        hasMore == "more" \in DOMAIN rd
        prom_type == Get(rd, "prometheus", "guage")
        true_value == Get(rd, "true_value", 1)
    IN
    IF register \notin DOMAIN store THEN Raised("KeyError")
    ELSE
    LET v == store[register]
        One(value) == Returned(<<Metric(name, value, unit, prom_type)>>)
    IN
    CASE rtype = "BOOL" ->
            IF ~BoolValid(v, true_value) THEN Raised("RuntimeError")
            ELSE One(IntValue(IF v = true_value THEN 1 ELSE v))
      [] rtype = "BITFIELD" -> One(IntValue(v))
      [] rtype = "HEX" -> One(StrValue(Hex04(v)))
      [] rtype = "UINT8" -> One(ScaleValue(v, scale))
      [] rtype = "DUINT8" ->
            IF "name2" \notin DOMAIN rd THEN Raised("KeyError")
            ELSE Returned(<<Metric(name, IntValue(DivMod(v, 256)[1]), unit, prom_type),
                            Metric(rd.name2, IntValue(DivMod(v, 256)[2]), unit, prom_type)>>)
      [] rtype = "UINT16" -> One(ScaleValue(v, scale))
      [] rtype = "INT16" -> One(ScaleValue(Int16(v), scale))
      [] rtype = "UINT32_HIGH" ->
            IF ~hasMore THEN Raised("RuntimeError")
            ELSE IF rd.more # register + 1 THEN Raised("RuntimeError")
            ELSE IF rd.more \notin DOMAIN store THEN Raised("KeyError")
            ELSE One(ScaleValue32(v, store[rd.more], scale))
      [] rtype = "UINT32_LOW" -> Raised("RuntimeError")
      [] rtype = "ASCII" ->
            IF ~hasMore THEN Raised("TypeError")
            ELSE LET e == AsciiParts(<<register>> \o rd.more, store)
                 IN  IF e # "none" THEN Raised(e) ELSE One(StrValue(<<>>))
      [] rtype = "TIME" -> One(IntValue(v))
      [] rtype = "POWER_FACTOR" -> One(FloatValue(v - 10000, 10000))
      [] OTHER -> Raised("RuntimeError")

HoldingRegisterDefinition ==
  <<
  (*   0 *) [name |-> "device_type_code", type |-> "HEX"],
  (*   1 *) [name |-> "inverter_module", type |-> "UINT32_HIGH", more |-> 2],
  (*   2 *) [cont |-> "inverter_module"],
  (*   3 *) [name |-> "num_mppt", name2 |-> "num_phases", type |-> "DUINT8"],
  (*   4 *) [unknown |-> "holding_reg004"],
  (*   5 *) [unknown |-> "holding_reg005"],
  (*   6 *) [unknown |-> "holding_reg006"],
  (*   7 *) [name |-> "enable_ammeter", type |-> "BOOL"],
  (*   8 *) [name |-> "first_battery_serial_number", type |-> "ASCII", more |-> <<9, 10, 11, 12>>],
  (*   9 *) [cont |-> "first_battery_serial_number"],
  (*  10 *) [cont |-> "first_battery_serial_number"],
  (*  11 *) [cont |-> "first_battery_serial_number"],
  (*  12 *) [cont |-> "first_battery_serial_number"],
  (*  13 *) [name |-> "inverter_serial_number", type |-> "ASCII", more |-> <<14, 15, 16, 17>>],
  (*  14 *) [cont |-> "inverter_serial_number"],
  (*  15 *) [cont |-> "inverter_serial_number"],
  (*  16 *) [cont |-> "inverter_serial_number"],
  (*  17 *) [cont |-> "inverter_serial_number"],
  (*  18 *) [name |-> "first_battery_bms_firmware_version"],
  (*  19 *) [name |-> "dsp_firmware_version"],
  (*  20 *) [name |-> "enable_charge_target", type |-> "BOOL", write_safe |-> TRUE],
  (*  21 *) [name |-> "arm_firmware_version"],
  (*  22 *) [name |-> "usb_device_inserted"],
  (*  23 *) [name |-> "select_arm_chip", type |-> "BOOL"],
  (*  24 *) [name |-> "variable_address"],
  (*  25 *) [name |-> "variable_value", type |-> "INT16"],
  (*  26 *) [name |-> "p_grid_port_max_output", unit |-> "w"],
  (*  27 *) [name |-> "battery_power_mode", write_safe |-> TRUE],
  (*  28 *) [name |-> "enable_60hz_freq_mode", type |-> "BOOL"],
  (*  29 *) [name |-> "soc_force_adjust"],
  (*  30 *) [name |-> "inverter_modbus_address", type |-> "UINT8"],
  (*  31 *) [name |-> "charge_slot_2_start", type |-> "TIME", write_safe |-> TRUE],
  (*  32 *) [name |-> "charge_slot_2_end", type |-> "TIME", write_safe |-> TRUE],
  (*  33 *) [name |-> "user_code"],
  (*  34 *) [name |-> "modbus_version", scaling |-> 100],
  (*  35 *) [name |-> "system_time_year", write_safe |-> TRUE],
  (*  36 *) [name |-> "system_time_month", write_safe |-> TRUE],
  (*  37 *) [name |-> "system_time_day", write_safe |-> TRUE],
  (*  38 *) [name |-> "system_time_hour", write_safe |-> TRUE],
  (*  39 *) [name |-> "system_time_minute", write_safe |-> TRUE],
  (*  40 *) [name |-> "system_time_second", write_safe |-> TRUE],
  (*  41 *) [name |-> "enable_drm_rj45_port", type |-> "BOOL"],
  (*  42 *) [name |-> "ct_adjust", type |-> "BITFIELD"],
  (*  43 *) [name |-> "charge_soc", name2 |-> "discharge_soc", type |-> "DUINT8"],
  (*  44 *) [name |-> "discharge_slot_2_start", type |-> "TIME", write_safe |-> TRUE],
  (*  45 *) [name |-> "discharge_slot_2_end", type |-> "TIME", write_safe |-> TRUE],
  (*  46 *) [name |-> "bms_chip_version"],
  (*  47 *) [name |-> "meter_type"],
  (*  48 *) [name |-> "reverse_115_meter_direct", type |-> "BOOL"],
  (*  49 *) [name |-> "reverse_418_meter_direct", type |-> "BOOL"],
  (*  50 *) [name |-> "active_power_rate", scaling |-> 100],
  (*  51 *) [name |-> "reactive_power_rate", scaling |-> 100],
  (*  52 *) [name |-> "power_factor", type |-> "POWER_FACTOR"],
  (*  53 *) [name |-> "inverter_auto_restart_state", name2 |-> "inverter_enable_state", type |-> "DUINT8"],
  (*  54 *) [name |-> "battery_type"],
  (*  55 *) [name |-> "battery_nominal_capacity", unit |-> "ah"],
  (*  56 *) [name |-> "discharge_slot_1_start", type |-> "TIME", write_safe |-> TRUE],
  (*  57 *) [name |-> "discharge_slot_1_end", type |-> "TIME", write_safe |-> TRUE],
  (*  58 *) [name |-> "enable_auto_judge_battery_type", type |-> "BOOL"],
  (*  59 *) [name |-> "enable_discharge", type |-> "BOOL", write_safe |-> TRUE],
  (*  60 *) [name |-> "pv_input_start", scaling |-> 10, unit |-> "volts"],
  (*  61 *) [name |-> "inverter_start_time", unit |-> "sec"],
  (*  62 *) [name |-> "inverter_restart_delay_time", unit |-> "sec"],
  (*  63 *) [name |-> "ac_low_out", scaling |-> 10, unit |-> "volts"],
  (*  64 *) [name |-> "ac_high_out", scaling |-> 10, unit |-> "volts"],
  (*  65 *) [name |-> "ac_low_out", scaling |-> 100, unit |-> "hz"],
  (*  66 *) [name |-> "ac_high_out", scaling |-> 100, unit |-> "hz"],
  (*  67 *) [name |-> "ac_low_out_time"],
  (*  68 *) [name |-> "ac_high_out_time"],
  (*  69 *) [name |-> "ac_low_out_time"],
  (*  70 *) [name |-> "ac_high_out_time"],
  (*  71 *) [name |-> "ac_low_in", scaling |-> 10, unit |-> "volts"],
  (*  72 *) [name |-> "ac_high_in", scaling |-> 10, unit |-> "volts"],
  (*  73 *) [name |-> "ac_low_in", scaling |-> 100, unit |-> "hz"],
  (*  74 *) [name |-> "ac_high_in", scaling |-> 100, unit |-> "hz"],
  (*  75 *) [name |-> "ac_low_in_time"],
  (*  76 *) [name |-> "ac_high_in_time"],
  (*  77 *) [name |-> "ac_low_in_time"],
  (*  78 *) [name |-> "ac_high_in_time"],
  (*  79 *) [name |-> "ac_low_c", scaling |-> 10, unit |-> "volts"],
  (*  80 *) [name |-> "ac_high_c", scaling |-> 10, unit |-> "volts"],
  (*  81 *) [name |-> "ac_low_c", scaling |-> 100, unit |-> "hz"],
  (*  82 *) [name |-> "ac_high_c", scaling |-> 100, unit |-> "hz"],
  (*  83 *) [name |-> "10_min_protection", scaling |-> 10, unit |-> "volts"],
  (*  84 *) [name |-> "iso1"],
  (*  85 *) [name |-> "iso2"],
  (*  86 *) [name |-> "gfci_1_i", unit |-> "amps", scaling |-> 1000],
  (*  87 *) [name |-> "gfci_1_time"],
  (*  88 *) [name |-> "gfci_2_i", unit |-> "amps", scaling |-> 1000],
  (*  89 *) [name |-> "gfci_2_time"],
  (*  90 *) [name |-> "dci_1_i", unit |-> "amps", scaling |-> 1000],
  (*  91 *) [name |-> "dci_1_time"],
  (*  92 *) [name |-> "dci_2_i", unit |-> "amps", scaling |-> 1000],
  (*  93 *) [name |-> "dci_2_time"],
  (*  94 *) [name |-> "charge_slot_1_start", type |-> "TIME", write_safe |-> TRUE],
  (*  95 *) [name |-> "charge_slot_1_end", type |-> "TIME", write_safe |-> TRUE],
  (*  96 *) [name |-> "enable_charge", type |-> "BOOL", write_safe |-> TRUE],
  (*  97 *) [name |-> "battery_under_protection_limit", scaling |-> 100, unit |-> "volts"],
  (*  98 *) [name |-> "battery_over_protection_limit", scaling |-> 100, unit |-> "volts"],
  (*  99 *) [name |-> "pv1_voltage_adjust", scaling |-> 10, unit |-> "volts"],
  (* 100 *) [name |-> "pv2_voltage_adjust", scaling |-> 10, unit |-> "volts"],
  (* 101 *) [name |-> "grid_r_voltage_adjust", scaling |-> 10, unit |-> "volts"],
  (* 102 *) [name |-> "grid_s_voltage_adjust", scaling |-> 10, unit |-> "volts"],
  (* 103 *) [name |-> "grid_t_voltage_adjust", scaling |-> 10, unit |-> "volts"],
  (* 104 *) [name |-> "grid_power_adjust", unit |-> "w"],
  (* 105 *) [name |-> "battery_voltage_adjust", scaling |-> 10, unit |-> "volts"],
  (* 106 *) [name |-> "pv1_power_adjust", unit |-> "w"],
  (* 107 *) [name |-> "pv2_power_adjust", unit |-> "w"],
  (* 108 *) [name |-> "battery_low_force_charge_time", unit |-> "min"],
  (* 109 *) [name |-> "enable_bms_read", type |-> "BOOL"],
  (* 110 *) [name |-> "battery_soc_reserve", scaling |-> 100, write_safe |-> TRUE],
  (* 111 *) [name |-> "battery_charge_limit", scaling |-> 100, write_safe |-> TRUE],
  (* 112 *) [name |-> "battery_discharge_limit", scaling |-> 100, write_safe |-> TRUE],
  (* 113 *) [name |-> "enable_buzzer", type |-> "BOOL"],
  (* 114 *) [name |-> "battery_discharge_min_power_reserve", scaling |-> 100, write_safe |-> TRUE],
  (* 115 *) [name |-> "island_check_continue"],
  (* 116 *) [name |-> "charge_target_soc", scaling |-> 100, write_safe |-> TRUE],
  (* 117 *) [name |-> "charge_soc_stop_2", scaling |-> 100],
  (* 118 *) [name |-> "discharge_soc_stop_2", scaling |-> 100],
  (* 119 *) [name |-> "charge_soc_stop_1", scaling |-> 100],
  (* 120 *) [name |-> "discharge_soc_stop_1", scaling |-> 100],
  (* 121 *) [name |-> "local_command_test"],
  (* 122 *) [name |-> "power_factor_function_model"],
  (* 123 *) [name |-> "frequency_load_limit_rate"],
  (* 124 *) [name |-> "enable_low_voltage_fault_ride_through", type |-> "BOOL"],
  (* 125 *) [name |-> "enable_frequency_derating", type |-> "BOOL"],
  (* 126 *) [name |-> "enable_above_6kw_system", type |-> "BOOL"],
  (* 127 *) [name |-> "start_system_auto_test", type |-> "BOOL"],
  (* 128 *) [name |-> "enable_spi", type |-> "BOOL"],
  (* 129 *) [name |-> "pf_cmd_memory_state"],
  (* 130 *) [name |-> "pf_limit_lp1_lp", scaling |-> 10],
  (* 131 *) [name |-> "pf_limit_lp1_pf", type |-> "POWER_FACTOR"],
  (* 132 *) [name |-> "pf_limit_lp2_lp", scaling |-> 10],
  (* 133 *) [name |-> "pf_limit_lp2_pf", type |-> "POWER_FACTOR"],
  (* 134 *) [name |-> "pf_limit_lp3_lp", scaling |-> 10],
  (* 135 *) [name |-> "pf_limit_lp3_pf", type |-> "POWER_FACTOR"],
  (* 136 *) [name |-> "pf_limit_lp4_lp", scaling |-> 10],
  (* 137 *) [name |-> "pf_limit_lp4_pf", type |-> "POWER_FACTOR"],
  (* 138 *) [name |-> "cei021_v1s"],
  (* 139 *) [name |-> "cei021_v2s"],
  (* 140 *) [name |-> "cei021_v1l"],
  (* 141 *) [name |-> "cei021_v2l"],
  (* 142 *) [name |-> "cei021_q_lock_in_power", scaling |-> 10],
  (* 143 *) [name |-> "cei021_q_lock_out_power", scaling |-> 10],
  (* 144 *) [name |-> "cei021_lock_in_grid_voltage", scaling |-> 10, unit |-> "volts"],
  (* 145 *) [name |-> "cei021_lock_out_grid_voltage", scaling |-> 10, unit |-> "volts"],
  (* 146 *) [unknown |-> "holding_reg146"],
  (* 147 *) [unknown |-> "holding_reg147"],
  (* 148 *) [unknown |-> "holding_reg148"],
  (* 149 *) [unknown |-> "holding_reg149"],
  (* 150 *) [unknown |-> "holding_reg150"],
  (* 151 *) [unknown |-> "holding_reg151"],
  (* 152 *) [unknown |-> "holding_reg152"],
  (* 153 *) [unknown |-> "holding_reg153"],
  (* 154 *) [unknown |-> "holding_reg154"],
  (* 155 *) [unknown |-> "holding_reg155"],
  (* 156 *) [unknown |-> "holding_reg156"],
  (* 157 *) [unknown |-> "holding_reg157"],
  (* 158 *) [unknown |-> "holding_reg158"],
  (* 159 *) [unknown |-> "holding_reg159"],
  (* 160 *) [unknown |-> "holding_reg160"],
  (* 161 *) [unknown |-> "holding_reg161"],
  (* 162 *) [unknown |-> "holding_reg162"],
  (* 163 *) [unknown |-> "holding_reg163"],
  (* 164 *) [unknown |-> "holding_reg164"],
  (* 165 *) [unknown |-> "holding_reg165"],
  (* 166 *) [unknown |-> "holding_reg166"],
  (* 167 *) [unknown |-> "holding_reg167"],
  (* 168 *) [unknown |-> "holding_reg168"],
  (* 169 *) [unknown |-> "holding_reg169"],
  (* 170 *) [unknown |-> "holding_reg170"],
  (* 171 *) [unknown |-> "holding_reg171"],
  (* 172 *) [unknown |-> "holding_reg172"],
  (* 173 *) [unknown |-> "holding_reg173"],
  (* 174 *) [unknown |-> "holding_reg174"],
  (* 175 *) [unknown |-> "holding_reg175"],
  (* 176 *) [unknown |-> "holding_reg176"],
  (* 177 *) [unknown |-> "holding_reg177"],
  (* 178 *) [unknown |-> "holding_reg178"],
  (* 179 *) [unknown |-> "holding_reg179"],
  (* 180 *) [unknown |-> "holding_reg180"],
  (* 181 *) [unknown |-> "holding_reg181"],
  (* 182 *) [unknown |-> "holding_reg182"],
  (* 183 *) [unknown |-> "holding_reg183"],
  (* 184 *) [unknown |-> "holding_reg184"],
  (* 185 *) [unknown |-> "holding_reg185"],
  (* 186 *) [unknown |-> "holding_reg186"],
  (* 187 *) [unknown |-> "holding_reg187"],
  (* 188 *) [unknown |-> "holding_reg188"],
  (* 189 *) [unknown |-> "holding_reg189"],
  (* 190 *) [unknown |-> "holding_reg190"],
  (* 191 *) [unknown |-> "holding_reg191"],
  (* 192 *) [unknown |-> "holding_reg192"],
  (* 193 *) [unknown |-> "holding_reg193"],
  (* 194 *) [unknown |-> "holding_reg194"],
  (* 195 *) [unknown |-> "holding_reg195"],
  (* 196 *) [unknown |-> "holding_reg196"],
  (* 197 *) [unknown |-> "holding_reg197"],
  (* 198 *) [unknown |-> "holding_reg198"],
  (* 199 *) [unknown |-> "holding_reg199"],
  (* 200 *) [unknown |-> "holding_reg200"],
  (* 201 *) [unknown |-> "holding_reg201"]
  >>

InputRegisterDefinition ==
  <<
  (*   0 *) [name |-> "inverter_status"],
  (*   1 *) [name |-> "pv1", scaling |-> 10, unit |-> "volts"],
  (*   2 *) [name |-> "pv2", scaling |-> 10, unit |-> "volts"],
  (*   3 *) [name |-> "p_bus", scaling |-> 10, unit |-> "volts"],
  (*   4 *) [name |-> "n_bus", scaling |-> 10, unit |-> "volts"],
  (*   5 *) [name |-> "ac1", scaling |-> 10, unit |-> "volts"],
  (*   6 *) [name |-> "battery_throughput_total", prometheus |-> "counter", type |-> "UINT32_HIGH", scaling |-> 10, unit |-> "kwh", more |-> 7],
  (*   7 *) [cont |-> "battery_throughput_total"],
  (*   8 *) [name |-> "pv1", scaling |-> 100, unit |-> "amps"],
  (*   9 *) [name |-> "pv2", scaling |-> 100, unit |-> "amps"],
  (*  10 *) [name |-> "ac1", scaling |-> 100, unit |-> "amps"],
  (*  11 *) [name |-> "pv_total", prometheus |-> "counter", type |-> "UINT32_HIGH", scaling |-> 10, unit |-> "kwh", more |-> 12],
  (*  12 *) [cont |-> "pv_total"],
  (*  13 *) [name |-> "ac1", scaling |-> 100, unit |-> "hz"],
  (*  14 *) [name |-> "charge_status"],
  (*  15 *) [name |-> "highbrigh_bus"],
  (*  16 *) [name |-> "inverter_out", type |-> "POWER_FACTOR"],
  (*  17 *) [name |-> "pv1_day", scaling |-> 10, unit |-> "kwh"],
  (*  18 *) [name |-> "pv1", unit |-> "kw"],
  (*  19 *) [name |-> "pv2_day", scaling |-> 10, unit |-> "kwh"],
  (*  20 *) [name |-> "pv2", unit |-> "kw"],
  (*  21 *) [name |-> "grid_out_total", prometheus |-> "counter", type |-> "UINT32_HIGH", scaling |-> 10, unit |-> "kwh", more |-> 22],
  (*  22 *) [cont |-> "grid_out_total"],
  (*  23 *) [name |-> "solar_diverter", scaling |-> 10, unit |-> "kwh"],
  (*  24 *) [name |-> "inverter_out", type |-> "INT16", unit |-> "w"],
  (*  25 *) [name |-> "grid_out_day", scaling |-> 10, unit |-> "kwh"],
  (*  26 *) [name |-> "grid_in_day", scaling |-> 10, unit |-> "kwh"],
  (*  27 *) [name |-> "inverter_in_total", prometheus |-> "counter", type |-> "UINT32_HIGH", scaling |-> 10, unit |-> "kwh", more |-> 28],
  (*  28 *) [cont |-> "inverter_in_total"],
  (*  29 *) [name |-> "discharge_year", scaling |-> 10, unit |-> "kwh"],
  (*  30 *) [name |-> "grid_out", type |-> "INT16", unit |-> "w"],
  (*  31 *) [name |-> "eps_backup", unit |-> "w"],
  (*  32 *) [name |-> "grid_in_total", prometheus |-> "counter", type |-> "UINT32_HIGH", scaling |-> 10, unit |-> "kwh", more |-> 33],
  (*  33 *) [cont |-> "grid_in_total"],
  (*  34 *) [unknown |-> "input_reg034"],
  (*  35 *) [name |-> "inverter_in_day", scaling |-> 10, unit |-> "kwh"],
  (*  36 *) [name |-> "battery_charge_day", scaling |-> 10, unit |-> "kwh"],
  (*  37 *) [name |-> "battery_discharge_day", scaling |-> 10, unit |-> "kwh"],
  (*  38 *) [name |-> "inverter_countdown", unit |-> "sec"],
  (*  39 *) [name |-> "fault_code_h", type |-> "BITFIELD"],
  (*  40 *) [name |-> "fault_code_l", type |-> "BITFIELD"],
  (*  41 *) [name |-> "inverter_heatsink", scaling |-> 10, unit |-> "temp_c"],
  (*  42 *) [name |-> "load_demand", unit |-> "w"],
  (*  43 *) [name |-> "grid_apparent", unit |-> "va"],
  (*  44 *) [name |-> "inverter_out_day", scaling |-> 10, unit |-> "kwh"],
  (*  45 *) [name |-> "inverter_out_total", prometheus |-> "counter", type |-> "UINT32_HIGH", scaling |-> 10, unit |-> "kwh", more |-> 46],
  (*  46 *) [cont |-> "inverter_out_total"],
  (*  47 *) [name |-> "work_time_total", type |-> "UINT32_HIGH", unit |-> "sec", more |-> 48],
  (*  48 *) [cont |-> "work_time_total"],
  (*  49 *) [name |-> "system_mode"],
  (*  50 *) [name |-> "battery", scaling |-> 100, unit |-> "volts"],
  (*  51 *) [name |-> "battery", type |-> "INT16", scaling |-> 100, unit |-> "amps"],
  (*  52 *) [name |-> "battery", type |-> "INT16", unit |-> "w"],
  (*  53 *) [name |-> "eps_backup", scaling |-> 10, unit |-> "volts"],
  (*  54 *) [name |-> "eps_backup", scaling |-> 100, unit |-> "hz"],
  (*  55 *) [name |-> "charger", scaling |-> 10, unit |-> "temp_c"],
  (*  56 *) [name |-> "battery", scaling |-> 10, unit |-> "temp_c"],
  (*  57 *) [name |-> "charger_warning_code"],
  (*  58 *) [name |-> "grid_port", scaling |-> 100, unit |-> "amps"],
  (*  59 *) [name |-> "battery_level", scaling |-> 100],
  (*  60 *) [name |-> "battery_cell_01", scaling |-> 1000, unit |-> "volts"],
  (*  61 *) [name |-> "battery_cell_02", scaling |-> 1000, unit |-> "volts"],
  (*  62 *) [name |-> "battery_cell_03", scaling |-> 1000, unit |-> "volts"],
  (*  63 *) [name |-> "battery_cell_04", scaling |-> 1000, unit |-> "volts"],
  (*  64 *) [name |-> "battery_cell_05", scaling |-> 1000, unit |-> "volts"],
  (*  65 *) [name |-> "battery_cell_06", scaling |-> 1000, unit |-> "volts"],
  (*  66 *) [name |-> "battery_cell_07", scaling |-> 1000, unit |-> "volts"],
  (*  67 *) [name |-> "battery_cell_08", scaling |-> 1000, unit |-> "volts"],
  (*  68 *) [name |-> "battery_cell_09", scaling |-> 1000, unit |-> "volts"],
  (*  69 *) [name |-> "battery_cell_10", scaling |-> 1000, unit |-> "volts"],
  (*  70 *) [name |-> "battery_cell_11", scaling |-> 1000, unit |-> "volts"],
  (*  71 *) [name |-> "battery_cell_12", scaling |-> 1000, unit |-> "volts"],
  (*  72 *) [name |-> "battery_cell_13", scaling |-> 1000, unit |-> "volts"],
  (*  73 *) [name |-> "battery_cell_14", scaling |-> 1000, unit |-> "volts"],
  (*  74 *) [name |-> "battery_cell_15", scaling |-> 1000, unit |-> "volts"],
  (*  75 *) [name |-> "battery_cell_16", scaling |-> 1000, unit |-> "volts"],
  (*  76 *) [name |-> "battery_cells_1", scaling |-> 10, unit |-> "temp_c"],
  (*  77 *) [name |-> "battery_cells_2", scaling |-> 10, unit |-> "temp_c"],
  (*  78 *) [name |-> "battery_cells_3", scaling |-> 10, unit |-> "temp_c"],
  (*  79 *) [name |-> "battery_cells_4", scaling |-> 10, unit |-> "temp_c"],
  (*  80 *) [name |-> "battery_cells_sum", scaling |-> 1000, unit |-> "volts"],
  (*  81 *) [name |-> "temp_bms_mos", scaling |-> 10, unit |-> "temp_c"],
  (*  82 *) [name |-> "battery_out", type |-> "UINT32_HIGH", scaling |-> 1000, unit |-> "volts", more |-> 83],
  (*  83 *) [cont |-> "battery_out"],
  (*  84 *) [name |-> "battery_full_capacity", type |-> "UINT32_HIGH", scaling |-> 100, unit |-> "ah", more |-> 85],
  (*  85 *) [cont |-> "battery_full_capacity", type |-> "UINT32_LOW", scaling |-> 100, unit |-> "ah"],
  (*  86 *) [name |-> "battery_design_capacity", type |-> "UINT32_HIGH", scaling |-> 100, unit |-> "ah", more |-> 87],
  (*  87 *) [cont |-> "battery_design_capacity"],
  (*  88 *) [name |-> "battery_remaining_capacity", type |-> "UINT32_HIGH", scaling |-> 100, unit |-> "ah", more |-> 89],
  (*  89 *) [cont |-> "battery_remaining_capacity"],
  (*  90 *) [name |-> "battery_status_1", name2 |-> "battery_status_2", type |-> "DUINT8"],
  (*  91 *) [name |-> "battery_status_3", name2 |-> "battery_status_4", type |-> "DUINT8"],
  (*  92 *) [name |-> "battery_status_5", name2 |-> "battery_status_6", type |-> "DUINT8"],
  (*  93 *) [name |-> "battery_status_7", name2 |-> "battery_status_8", type |-> "DUINT8"],
  (*  94 *) [name |-> "battery_warning_1", name2 |-> "battery_warning_2", type |-> "DUINT8"],
  (*  95 *) [unknown |-> "input_reg095"],
  (*  96 *) [name |-> "battery_num_cycles"],
  (*  97 *) [name |-> "battery_num_cells"],
  (*  98 *) [name |-> "bms_firmware_version"],
  (*  99 *) [unknown |-> "input_reg099"],
  (* 100 *) [name |-> "battery_soc"],
  (* 101 *) [name |-> "battery_design_capacity_2", type |-> "UINT32_HIGH", scaling |-> 100, unit |-> "ah", more |-> 102],
  (* 102 *) [cont |-> "battery_design_capacity_2"],
  (* 103 *) [name |-> "temp_battery_max", scaling |-> 10, unit |-> "temp_c"],
  (* 104 *) [name |-> "temp_battery_min", scaling |-> 10, unit |-> "temp_c"],
  (* 105 *) [name |-> "battery_discharge_total_2", scaling |-> 10, unit |-> "kwh"],
  (* 106 *) [name |-> "battery_charge_total_2", scaling |-> 10, unit |-> "kwh"],
  (* 107 *) [unknown |-> "input_reg107"],
  (* 108 *) [unknown |-> "input_reg108"],
  (* 109 *) [unknown |-> "input_reg109"],
  (* 110 *) [name |-> "battery_serial_number", type |-> "ASCII", more |-> <<111, 112, 113, 114>>],
  (* 111 *) [cont |-> "battery_serial_number"],
  (* 112 *) [cont |-> "battery_serial_number"],
  (* 113 *) [cont |-> "battery_serial_number"],
  (* 114 *) [cont |-> "battery_serial_number"],
  (* 115 *) [name |-> "usb_inserted", type |-> "BOOL", true_value |-> 8],
  (* 116 *) [unknown |-> "input_reg116"],
  (* 117 *) [unknown |-> "input_reg117"],
  (* 118 *) [unknown |-> "input_reg118"],
  (* 119 *) [unknown |-> "input_reg119"],
  (* 120 *) [unknown |-> "input_reg120"],
  (* 121 *) [unknown |-> "input_reg121"],
  (* 122 *) [unknown |-> "input_reg122"],
  (* 123 *) [unknown |-> "input_reg123"],
  (* 124 *) [unknown |-> "input_reg124"],
  (* 125 *) [unknown |-> "input_reg125"],
  (* 126 *) [unknown |-> "input_reg126"],
  (* 127 *) [unknown |-> "input_reg127"],
  (* 128 *) [unknown |-> "input_reg128"],
  (* 129 *) [unknown |-> "input_reg129"],
  (* 130 *) [unknown |-> "input_reg130"],
  (* 131 *) [unknown |-> "input_reg131"],
  (* 132 *) [unknown |-> "input_reg132"],
  (* 133 *) [unknown |-> "input_reg133"],
  (* 134 *) [unknown |-> "input_reg134"],
  (* 135 *) [unknown |-> "input_reg135"],
  (* 136 *) [unknown |-> "input_reg136"],
  (* 137 *) [unknown |-> "input_reg137"],
  (* 138 *) [unknown |-> "input_reg138"],
  (* 139 *) [unknown |-> "input_reg139"],
  (* 140 *) [unknown |-> "input_reg140"],
  (* 141 *) [unknown |-> "input_reg141"],
  (* 142 *) [unknown |-> "input_reg142"],
  (* 143 *) [unknown |-> "input_reg143"],
  (* 144 *) [unknown |-> "input_reg144"],
  (* 145 *) [unknown |-> "input_reg145"],
  (* 146 *) [unknown |-> "input_reg146"],
  (* 147 *) [unknown |-> "input_reg147"],
  (* 148 *) [unknown |-> "input_reg148"],
  (* 149 *) [unknown |-> "input_reg149"],
  (* 150 *) [unknown |-> "input_reg150"],
  (* 151 *) [unknown |-> "input_reg151"],
  (* 152 *) [unknown |-> "input_reg152"],
  (* 153 *) [unknown |-> "input_reg153"],
  (* 154 *) [unknown |-> "input_reg154"],
  (* 155 *) [unknown |-> "input_reg155"],
  (* 156 *) [unknown |-> "input_reg156"],
  (* 157 *) [unknown |-> "input_reg157"],
  (* 158 *) [unknown |-> "input_reg158"],
  (* 159 *) [unknown |-> "input_reg159"],
  (* 160 *) [unknown |-> "input_reg160"],
  (* 161 *) [unknown |-> "input_reg161"],
  (* 162 *) [unknown |-> "input_reg162"],
  (* 163 *) [unknown |-> "input_reg163"],
  (* 164 *) [unknown |-> "input_reg164"],
  (* 165 *) [unknown |-> "input_reg165"],
  (* 166 *) [unknown |-> "input_reg166"],
  (* 167 *) [unknown |-> "input_reg167"],
  (* 168 *) [unknown |-> "input_reg168"],
  (* 169 *) [unknown |-> "input_reg169"],
  (* 170 *) [unknown |-> "input_reg170"],
  (* 171 *) [unknown |-> "input_reg171"],
  (* 172 *) [unknown |-> "input_reg172"],
  (* 173 *) [unknown |-> "input_reg173"],
  (* 174 *) [unknown |-> "input_reg174"],
  (* 175 *) [unknown |-> "input_reg175"],
  (* 176 *) [unknown |-> "input_reg176"],
  (* 177 *) [unknown |-> "input_reg177"],
  (* 178 *) [unknown |-> "input_reg178"],
  (* 179 *) [unknown |-> "input_reg179"],
  (* 180 *) [name |-> "battery_discharge_total", scaling |-> 10, unit |-> "kwh"],
  (* 181 *) [name |-> "battery_charge_total", scaling |-> 10, unit |-> "kwh"],
  (* 182 *) [name |-> "battery_discharge_day_2", scaling |-> 10, unit |-> "kwh"],
  (* 183 *) [name |-> "battery_charge_day_2", scaling |-> 10, unit |-> "kwh"],
  (* 184 *) [unknown |-> "input_reg184"],
  (* 185 *) [unknown |-> "input_reg185"],
  (* 186 *) [unknown |-> "input_reg186"],
  (* 187 *) [unknown |-> "input_reg187"],
  (* 188 *) [unknown |-> "input_reg188"],
  (* 189 *) [unknown |-> "input_reg189"],
  (* 190 *) [unknown |-> "input_reg190"],
  (* 191 *) [unknown |-> "input_reg191"],
  (* 192 *) [unknown |-> "input_reg192"],
  (* 193 *) [unknown |-> "input_reg193"],
  (* 194 *) [unknown |-> "input_reg194"],
  (* 195 *) [unknown |-> "input_reg195"],
  (* 196 *) [unknown |-> "input_reg196"],
  (* 197 *) [unknown |-> "input_reg197"],
  (* 198 *) [unknown |-> "input_reg198"],
  (* 199 *) [unknown |-> "input_reg199"],
  (* 200 *) [unknown |-> "input_reg200"],
  (* 201 *) [name |-> "remote_bms_restart", type |-> "BOOL"],
  (* 202 *) [unknown |-> "input_reg202"],
  (* 203 *) [unknown |-> "input_reg203"],
  (* 204 *) [unknown |-> "input_reg204"],
  (* 205 *) [unknown |-> "input_reg205"],
  (* 206 *) [unknown |-> "input_reg206"],
  (* 207 *) [unknown |-> "input_reg207"],
  (* 208 *) [unknown |-> "input_reg208"],
  (* 209 *) [unknown |-> "input_reg209"],
  (* 210 *) [name |-> "iso_fault_value", scaling |-> 10, unit |-> "volts"],
  (* 211 *) [name |-> "gfci_fault_value", unit |-> "amps", scaling |-> 1000],
  (* 212 *) [name |-> "dci_fault_value", scaling |-> 100, unit |-> "amps"],
  (* 213 *) [name |-> "pv_fault_value", scaling |-> 10, unit |-> "volts"],
  (* 214 *) [name |-> "ac_fault_value", scaling |-> 10, unit |-> "volts"],
  (* 215 *) [name |-> "av_fault_value", scaling |-> 100, unit |-> "hz"],
  (* 216 *) [name |-> "temp_fault_value", scaling |-> 10, unit |-> "temp_c"],
  (* 217 *) [unknown |-> "input_reg217"],
  (* 218 *) [unknown |-> "input_reg218"],
  (* 219 *) [unknown |-> "input_reg219"],
  (* 220 *) [unknown |-> "input_reg220"],
  (* 221 *) [unknown |-> "input_reg221"],
  (* 222 *) [unknown |-> "input_reg222"],
  (* 223 *) [unknown |-> "input_reg223"],
  (* 224 *) [unknown |-> "input_reg224"],
  (* 225 *) [name |-> "auto_test_process_or_auto_test_step", type |-> "BITFIELD"],
  (* 226 *) [name |-> "auto_test_result"],
  (* 227 *) [name |-> "auto_test_stop_step"],
  (* 228 *) [unknown |-> "input_reg228"],
  (* 229 *) [name |-> "safety_v_f_limit", scaling |-> 10],
  (* 230 *) [name |-> "safety_time_limit", unit |-> "sec", scaling |-> 1000],
  (* 231 *) [name |-> "real_v_f_value", scaling |-> 10],
  (* 232 *) [name |-> "test_value", scaling |-> 10],
  (* 233 *) [name |-> "test_treat_value", scaling |-> 10],
  (* 234 *) [name |-> "test_treat_time"],
  (* 235 *) [unknown |-> "input_reg235"],
  (* 236 *) [unknown |-> "input_reg236"],
  (* 237 *) [unknown |-> "input_reg237"],
  (* 238 *) [unknown |-> "input_reg238"],
  (* 239 *) [unknown |-> "input_reg239"],
  (* 240 *) [name |-> "ac1_m3", scaling |-> 10, unit |-> "volts"],
  (* 241 *) [name |-> "ac2_m3", scaling |-> 10, unit |-> "volts"],
  (* 242 *) [name |-> "ac3_m3", scaling |-> 10, unit |-> "volts"],
  (* 243 *) [name |-> "ac1_m3", scaling |-> 100, unit |-> "amps"],
  (* 244 *) [name |-> "ac2_m3", scaling |-> 100, unit |-> "amps"],
  (* 245 *) [name |-> "ac3_m3", scaling |-> 100, unit |-> "amps"],
  (* 246 *) [name |-> "gfci_m3", scaling |-> 1000, unit |-> "amps"],
  (* 247 *) [unknown |-> "input_reg247"],
  (* 248 *) [unknown |-> "input_reg248"],
  (* 249 *) [unknown |-> "input_reg249"],
  (* 250 *) [unknown |-> "input_reg250"],
  (* 251 *) [unknown |-> "input_reg251"],
  (* 252 *) [unknown |-> "input_reg252"],
  (* 253 *) [unknown |-> "input_reg253"],
  (* 254 *) [unknown |-> "input_reg254"],
  (* 255 *) [unknown |-> "input_reg255"],
  (* 256 *) [unknown |-> "input_reg256"],
  (* 257 *) [unknown |-> "input_reg257"],
  (* 258 *) [name |-> "pv1_limit", type |-> "INT16", scaling |-> 10, unit |-> "volts"],
  (* 259 *) [name |-> "pv2_limit", type |-> "INT16", scaling |-> 10, unit |-> "volts"],
  (* 260 *) [name |-> "bus_limit", type |-> "INT16", scaling |-> 10, unit |-> "volts"],
  (* 261 *) [name |-> "n_bus_limit", type |-> "INT16", scaling |-> 10, unit |-> "volts"],
  (* 262 *) [name |-> "ac1_limit", type |-> "INT16", scaling |-> 10, unit |-> "volts"],
  (* 263 *) [name |-> "ac2_limit", type |-> "INT16", scaling |-> 10, unit |-> "volts"],
  (* 264 *) [name |-> "ac3_limit", type |-> "INT16", scaling |-> 10, unit |-> "volts"],
  (* 265 *) [name |-> "pv1_limit", type |-> "INT16", unit |-> "amps", scaling |-> 1000],
  (* 266 *) [name |-> "pv2_limit", type |-> "INT16", unit |-> "amps", scaling |-> 1000],
  (* 267 *) [name |-> "ac1_limit", type |-> "INT16", unit |-> "amps", scaling |-> 1000],
  (* 268 *) [name |-> "ac2_limit", type |-> "INT16", unit |-> "amps", scaling |-> 1000],
  (* 269 *) [name |-> "ac3_limit", type |-> "INT16", unit |-> "amps", scaling |-> 1000],
  (* 270 *) [name |-> "ac1_limit", type |-> "INT16", scaling |-> 10, unit |-> "w"],
  (* 271 *) [name |-> "ac2_limit", type |-> "INT16", scaling |-> 10, unit |-> "w"],
  (* 272 *) [name |-> "ac3_limit", type |-> "INT16", scaling |-> 10, unit |-> "w"],
  (* 273 *) [name |-> "dci_limit", type |-> "INT16", scaling |-> 1000, unit |-> "amps"],
  (* 274 *) [name |-> "gfci_limit", type |-> "INT16", scaling |-> 1000, unit |-> "amps"],
  (* 275 *) [name |-> "ac1_m3_limit", type |-> "INT16", scaling |-> 10, unit |-> "volts"],
  (* 276 *) [name |-> "ac2_m3_limit", type |-> "INT16", scaling |-> 10, unit |-> "volts"],
  (* 277 *) [name |-> "ac3_m3_limit", type |-> "INT16", scaling |-> 10, unit |-> "volts"],
  (* 278 *) [name |-> "ac1_m3_limit", type |-> "INT16", scaling |-> 100, unit |-> "amps"],
  (* 279 *) [name |-> "ac2_m3_limit", type |-> "INT16", scaling |-> 100, unit |-> "amps"],
  (* 280 *) [name |-> "ac3_m3_limit", type |-> "INT16", scaling |-> 100, unit |-> "amps"],
  (* 281 *) [name |-> "gfci_m3_limit", type |-> "INT16", scaling |-> 1000, unit |-> "amps"],
  (* 282 *) [name |-> "battery_limit", type |-> "INT16", scaling |-> 100, unit |-> "volts"],
  (* 283 *) [unknown |-> "input_reg283"],
  (* 284 *) [unknown |-> "input_reg284"],
  (* 285 *) [unknown |-> "input_reg285"],
  (* 286 *) [unknown |-> "input_reg286"],
  (* 287 *) [unknown |-> "input_reg287"],
  (* 288 *) [unknown |-> "input_reg288"],
  (* 289 *) [unknown |-> "input_reg289"],
  (* 290 *) [unknown |-> "input_reg290"],
  (* 291 *) [unknown |-> "input_reg291"],
  (* 292 *) [unknown |-> "input_reg292"],
  (* 293 *) [unknown |-> "input_reg293"],
  (* 294 *) [unknown |-> "input_reg294"],
  (* 295 *) [unknown |-> "input_reg295"],
  (* 296 *) [unknown |-> "input_reg296"],
  (* 297 *) [unknown |-> "input_reg297"],
  (* 298 *) [unknown |-> "input_reg298"],
  (* 299 *) [unknown |-> "input_reg299"],
  (* 300 *) [unknown |-> "input_reg300"],
  (* 301 *) [unknown |-> "input_reg301"]
  >>

NameOrder ==
  <<
    "10_min_protection", "ac1", "ac1_limit", "ac1_m3", "ac1_m3_limit", "ac2_limit", "ac2_m3",
    "ac2_m3_limit", "ac3_limit", "ac3_m3", "ac3_m3_limit", "ac_fault_value", "ac_high_c",
    "ac_high_in", "ac_high_in_time", "ac_high_out", "ac_high_out_time", "ac_low_c", "ac_low_in",
    "ac_low_in_time", "ac_low_out", "ac_low_out_time", "active_power_rate",
    "arm_firmware_version", "auto_test_process_or_auto_test_step", "auto_test_result",
    "auto_test_stop_step", "av_fault_value", "battery", "battery_cell_01", "battery_cell_02",
    "battery_cell_03", "battery_cell_04", "battery_cell_05", "battery_cell_06",
    "battery_cell_07", "battery_cell_08", "battery_cell_09", "battery_cell_10",
    "battery_cell_11", "battery_cell_12", "battery_cell_13", "battery_cell_14",
    "battery_cell_15", "battery_cell_16", "battery_cells_1", "battery_cells_2",
    "battery_cells_3", "battery_cells_4", "battery_cells_sum", "battery_charge_day",
    "battery_charge_day_2", "battery_charge_limit", "battery_charge_total",
    "battery_charge_total_2", "battery_design_capacity", "battery_design_capacity_2",
    "battery_discharge_day", "battery_discharge_day_2", "battery_discharge_limit",
    "battery_discharge_min_power_reserve", "battery_discharge_total",
    "battery_discharge_total_2", "battery_full_capacity", "battery_level", "battery_limit",
    "battery_low_force_charge_time", "battery_nominal_capacity", "battery_num_cells",
    "battery_num_cycles", "battery_out", "battery_over_protection_limit", "battery_power_mode",
    "battery_remaining_capacity", "battery_serial_number", "battery_soc", "battery_soc_reserve",
    "battery_status_1", "battery_status_2", "battery_status_3", "battery_status_4",
    "battery_status_5", "battery_status_6", "battery_status_7", "battery_status_8",
    "battery_throughput_total", "battery_type", "battery_under_protection_limit",
    "battery_voltage_adjust", "battery_warning_1", "battery_warning_2", "bms_chip_version",
    "bms_firmware_version", "bus_limit", "cei021_lock_in_grid_voltage",
    "cei021_lock_out_grid_voltage", "cei021_q_lock_in_power", "cei021_q_lock_out_power",
    "cei021_v1l", "cei021_v1s", "cei021_v2l", "cei021_v2s", "charge_slot_1_end",
    "charge_slot_1_start", "charge_slot_2_end", "charge_slot_2_start", "charge_soc",
    "charge_soc_stop_1", "charge_soc_stop_2", "charge_status", "charge_target_soc", "charger",
    "charger_warning_code", "ct_adjust", "dci_1_i", "dci_1_time", "dci_2_i", "dci_2_time",
    "dci_fault_value", "dci_limit", "device_type_code", "discharge_slot_1_end",
    "discharge_slot_1_start", "discharge_slot_2_end", "discharge_slot_2_start", "discharge_soc",
    "discharge_soc_stop_1", "discharge_soc_stop_2", "discharge_year", "dsp_firmware_version",
    "enable_60hz_freq_mode", "enable_above_6kw_system", "enable_ammeter",
    "enable_auto_judge_battery_type", "enable_bms_read", "enable_buzzer", "enable_charge",
    "enable_charge_target", "enable_discharge", "enable_drm_rj45_port",
    "enable_frequency_derating", "enable_low_voltage_fault_ride_through", "enable_spi",
    "eps_backup", "fault_code_h", "fault_code_l", "first_battery_bms_firmware_version",
    "first_battery_serial_number", "frequency_load_limit_rate", "gfci_1_i", "gfci_1_time",
    "gfci_2_i", "gfci_2_time", "gfci_fault_value", "gfci_limit", "gfci_m3", "gfci_m3_limit",
    "grid_apparent", "grid_in_day", "grid_in_total", "grid_out", "grid_out_day",
    "grid_out_total", "grid_port", "grid_power_adjust", "grid_r_voltage_adjust",
    "grid_s_voltage_adjust", "grid_t_voltage_adjust", "highbrigh_bus",
    "inverter_auto_restart_state", "inverter_countdown", "inverter_enable_state",
    "inverter_heatsink", "inverter_in_day", "inverter_in_total", "inverter_modbus_address",
    "inverter_module", "inverter_out", "inverter_out_day", "inverter_out_total",
    "inverter_restart_delay_time", "inverter_serial_number", "inverter_start_time",
    "inverter_status", "island_check_continue", "iso1", "iso2", "iso_fault_value",
    "load_demand", "local_command_test", "meter_type", "modbus_version", "n_bus", "n_bus_limit",
    "num_mppt", "num_phases", "p_bus", "p_grid_port_max_output", "pf_cmd_memory_state",
    "pf_limit_lp1_lp", "pf_limit_lp1_pf", "pf_limit_lp2_lp", "pf_limit_lp2_pf",
    "pf_limit_lp3_lp", "pf_limit_lp3_pf", "pf_limit_lp4_lp", "pf_limit_lp4_pf", "power_factor",
    "power_factor_function_model", "pv1", "pv1_day", "pv1_limit", "pv1_power_adjust",
    "pv1_voltage_adjust", "pv2", "pv2_day", "pv2_limit", "pv2_power_adjust",
    "pv2_voltage_adjust", "pv_fault_value", "pv_input_start", "pv_total", "reactive_power_rate",
    "real_v_f_value", "remote_bms_restart", "reverse_115_meter_direct",
    "reverse_418_meter_direct", "safety_time_limit", "safety_v_f_limit", "select_arm_chip",
    "soc_force_adjust", "solar_diverter", "start_system_auto_test", "system_mode",
    "system_time_day", "system_time_hour", "system_time_minute", "system_time_month",
    "system_time_second", "system_time_year", "temp_battery_max", "temp_battery_min",
    "temp_bms_mos", "temp_fault_value", "test_treat_time", "test_treat_value", "test_value",
    "usb_device_inserted", "usb_inserted", "user_code", "variable_address", "variable_value",
    "work_time_total"
  >>

(***************************************************************************)
(* class GivEnergyResponse: the sequential decoding of a payload with a    *)
(* big-endian BinaryPayloadDecoder.  decode_string(n) slices and so        *)
(* returns what is left when fewer than n bytes remain; the numeric        *)
(* decoders unpack a slice of fixed size and fail with struct.error when   *)
(* it is short.                                                            *)
(***************************************************************************)
Min(a, b) == IF a < b THEN a ELSE b

\* payload[p : p + n] for a 0-based pointer p
Slice(bytes, p, n) == SubSeq(bytes, p + 1, Min(Len(bytes), p + n))

\* bytes.decode("ascii") succeeds
IsAscii(bytes) == \A i \in DOMAIN bytes : bytes[i] <= 127

DecodeRegisters_FromZero(data, base, count) ==
    [reg \in 0 .. (count - 1) |->
        FromU16BE(data[34 + 2 * reg + 1], data[34 + 2 * reg + 2])]

\* the registers decoded by the loop over range(base, base + count): register
\* base + i is the i-th 16-bit word after the 34 byte prefix
DecodeRegisters(data, base, count) ==
    [reg \in base .. (base + count - 1) |->
        FromU16BE(data[34 + 2 * (reg - base) + 1], data[34 + 2 * (reg - base) + 2])]

NoRegisters == [reg \in {} |-> 0]

NoResponse ==
    [error |-> FALSE, function_code |-> 0, base_register |-> 0, register_count |-> 0,
     register |-> NoRegisters, check |-> 0]

\* the error flag test of the function code byte
IsErrorCode_Never(function_code) == FALSE

IsErrorCode(function_code) == function_code >= 128

\* GivEnergyResponse(app, payload): the exception raised ("none" when the
\* object is constructed) and the object.
DecodeResponse_CheckCrc(data) ==
    LET n == Len(data)
        fail(e) == [exc |-> e, resp |-> NoResponse]
    IN
    IF ~IsAscii(Slice(data, 0, 10)) THEN fail("UnicodeDecodeError")
    ELSE IF n < 18 THEN fail("struct.error")            \* padding
    ELSE IF n < 19 THEN fail("struct.error")            \* slave_address
    ELSE IF n < 20 THEN fail("struct.error")            \* function_code
    ELSE
    LET raw_code == data[20]
        err == IsErrorCode(raw_code)
        function_code == IF err THEN raw_code % 128 ELSE raw_code
    IN
    IF ~IsAscii(Slice(data, 20, 10)) THEN fail("UnicodeDecodeError")
    ELSE IF n < 32 THEN fail("struct.error")            \* base_register
    ELSE IF n < 34 THEN fail("struct.error")            \* register_count
    ELSE
    LET base == FromU16BE(data[31], data[32])
        count == FromU16BE(data[33], data[34])
        nregs == IF err THEN 0 ELSE count
    IN
    IF n < 34 + 2 * nregs THEN fail("struct.error")     \* a register is short
    ELSE IF n < 34 + 2 * nregs + 2 THEN fail("struct.error")   \* check
    ELSE IF FromU16BE(data[34 + 2 * nregs + 1], data[34 + 2 * nregs + 2])
                # CrcModbus(<<raw_code, data[31], data[32], data[33], data[34]>>)
    THEN fail("ValueError")                             \* check is not the CRC
    ELSE [exc |-> "none",
          resp |-> [error |-> err,
                    function_code |-> function_code,
                    base_register |-> base,
                    register_count |-> count,
                    register |-> IF err THEN NoRegisters
                                 ELSE DecodeRegisters(data, base, count),
                    check |-> FromU16BE(data[34 + 2 * nregs + 1],
                                        data[34 + 2 * nregs + 2])]]

DecodeResponse_ZeroPadded(data) ==
    LET d == data \o [i \in 1 .. (36 - Len(data)) |-> 0]
        err == IsErrorCode(d[20])
        base == FromU16BE(d[31], d[32])
        count == FromU16BE(d[33], d[34])
        whole == Len(d) >= 36 + 2 * count
    IN  [exc |-> "none",
         resp |-> [error |-> err,
                   function_code |-> d[20] % 128,
                   base_register |-> base,
                   register_count |-> count,
                   register |-> IF err \/ ~whole THEN NoRegisters
                                ELSE DecodeRegisters(d, base, count),
                   check |-> 0]]

DecodeResponse(data) ==
    LET n == Len(data)
        fail(e) == [exc |-> e, resp |-> NoResponse]
    IN
    IF ~IsAscii(Slice(data, 0, 10)) THEN fail("UnicodeDecodeError")
    ELSE IF n < 18 THEN fail("struct.error")            \* padding
    ELSE IF n < 19 THEN fail("struct.error")            \* slave_address
    ELSE IF n < 20 THEN fail("struct.error")            \* function_code
    ELSE
    LET raw_code == data[20]
        err == IsErrorCode(raw_code)
        function_code == IF err THEN raw_code % 128 ELSE raw_code
    IN
    IF ~IsAscii(Slice(data, 20, 10)) THEN fail("UnicodeDecodeError")
    ELSE IF n < 32 THEN fail("struct.error")            \* base_register
    ELSE IF n < 34 THEN fail("struct.error")            \* register_count
    ELSE
    LET base == FromU16BE(data[31], data[32])
        count == FromU16BE(data[33], data[34])
        nregs == IF err THEN 0 ELSE count
    IN
    IF n < 34 + 2 * nregs THEN fail("struct.error")     \* a register is short
    ELSE IF n < 34 + 2 * nregs + 2 THEN fail("struct.error")   \* check
    ELSE [exc |-> "none",
          resp |-> [error |-> err,
                    function_code |-> function_code,
                    base_register |-> base,
                    register_count |-> count,
                    register |-> IF err THEN NoRegisters
                                 ELSE DecodeRegisters(data, base, count),
                    check |-> FromU16BE(data[34 + 2 * nregs + 1],
                                        data[34 + 2 * nregs + 2])]]

(***************************************************************************)
(* The inverter.  It answers a request with one frame laid out as          *)
(* GivEnergyResponse reads it, carrying the registers of the image it      *)
(* serves; an error answer sets the high bit of the function code and      *)
(* carries no registers.                                                   *)
(***************************************************************************)
\* 'SA1234G567' as ASCII bytes
inverter_serial_number == <<83, 65, 49, 50, 51, 52, 71, 53, 54, 55>>

Images == {"zeros", "eights", "ramp", "hold8"}

\* the 16-bit value the image holds at an address of a register space
DeviceRegister(img, function_code, addr) ==
    CASE img = "zeros" -> 0
      [] img = "eights" -> 8
      [] img = "ramp" -> (addr * 257 + function_code) % 65536
      [] img = "hold8" -> IF function_code = FUNC_READ_HOLDING_REGISTERS THEN 8 ELSE 0

\* the registers addr .. addr + count - 1 as big-endian 16-bit words
DeviceRegisterBytes(img, function_code, addr, count) ==
    [i \in 1 .. 2 * count |->
        LET v == DeviceRegister(img, function_code, addr + ((i - 1) \div 2))
        IN  IF i % 2 = 1 THEN (v \div 256) % 256 ELSE v % 256]

\* the response frame (header and payload) to a request
DeviceResponse(req, img, err, check) ==
    LET body == data_adapter_serial_number \o U64BE(padding) \o U8(slave_address)
                    \o U8(IF err THEN req.function_code + 128 ELSE req.function_code)
                    \o inverter_serial_number
                    \o U16BE(req.base_register) \o U16BE(req.register_count)
                    \o (IF err THEN <<>>
                        ELSE DeviceRegisterBytes(img, req.function_code,
                                                 req.base_register, req.register_count))
                    \o U16BE(check)
    IN  PackHeader(GIVENERGY_TID, GIVENERGY_PID, Len(body) + 2,
                   GIVENERGY_UID, GIVENERGY_FID) \o body

\* what the inverter may answer to a request: the registers asked for, an
\* error, or the registers of a range that starts one address later than
\* the one asked for (the response echoes the range it carries)
Answers(req, img) ==
    {DeviceResponse(req, img, err, 0) : err \in BOOLEAN}
        \cup {DeviceResponse([req EXCEPT !.base_register = @ + 1], img, FALSE, 0)}

(***************************************************************************)
(* Metric.__lt__ and list.sort(): metrics are ordered by name alone        *)
(* (Python string order, given by NameOrder) and the sort is stable.       *)
(***************************************************************************)
NameRank ==
    [n \in {NameOrder[i] : i \in DOMAIN NameOrder} |->
        CHOOSE i \in DOMAIN NameOrder : NameOrder[i] = n]

\* Metric.__lt__
MetricLess(a, b) == NameRank[a.name] < NameRank[b.name]

\* ms, whose names all lie in NameOrder[lo] .. NameOrder[hi], sorted: those
\* less than the name in the middle, sorted, before the others, sorted; each
\* part keeps the order its metrics have in ms, which makes the sort stable
RECURSIVE SortRange(_, _, _)
SortRange(ms, lo, hi) ==
    IF lo >= hi \/ Len(ms) <= 1
    THEN ms
    ELSE LET mid == (lo + hi) \div 2
             pivot == [name |-> NameOrder[mid + 1]]
         IN  SortRange(SelectSeq(ms, LAMBDA m : MetricLess(m, pivot)), lo, mid)
                 \o SortRange(SelectSeq(ms, LAMBDA m : ~MetricLess(m, pivot)), mid + 1, hi)

SortMetrics_TiesReversed(ms) ==
    SortRange([i \in 1 .. Len(ms) |-> ms[Len(ms) + 1 - i]], 1, Len(NameOrder))

\* self.metrics.sort(): a stable sort under MetricLess
SortMetrics(ms) == SortRange(ms, 1, Len(NameOrder))

(***************************************************************************)
(* printMetrics: the lines written to the file.  The first line carries    *)
(* the time of the report, for which the cycle number stands.              *)
(***************************************************************************)
ReportLine(c) == [line |-> "report", cycle |-> c]

\* the lines printed for one metric: TYPE and value for a number, COMMENT
\* otherwise; the metric name is givenergy_<name>, with _<unit> if not scalar
MetricLine(m) ==
    [line |-> IF m.value.t \in {"int", "float"} THEN "TYPE" ELSE "COMMENT",
     name |-> m.name, unit |-> m.unit, value |-> m.value, prom_type |-> m.prom_type]

PrintedLines(c, ms) == <<ReportLine(c)>> \o [i \in DOMAIN ms |-> MetricLine(ms[i])]

(***************************************************************************)
(* fetchMetrics: the polling plan.                                         *)
(***************************************************************************)
Plan_RegularStride ==
    << <<FUNC_READ_INPUT_REGISTERS, 0, 60>>, <<FUNC_READ_INPUT_REGISTERS, 60, 60>>,
       <<FUNC_READ_INPUT_REGISTERS, 120, 60>>,
       <<FUNC_READ_HOLDING_REGISTERS, 0, 60>>, <<FUNC_READ_HOLDING_REGISTERS, 60, 60>>,
       <<FUNC_READ_HOLDING_REGISTERS, 120, 60>> >>

Plan_ShortBlock ==
    << <<FUNC_READ_INPUT_REGISTERS, 0, 60>>, <<FUNC_READ_INPUT_REGISTERS, 60, 51>>,
       <<FUNC_READ_INPUT_REGISTERS, 180, 60>>,
       <<FUNC_READ_HOLDING_REGISTERS, 0, 60>>, <<FUNC_READ_HOLDING_REGISTERS, 60, 60>>,
       <<FUNC_READ_HOLDING_REGISTERS, 120, 60>> >>

Plan ==
    << <<FUNC_READ_INPUT_REGISTERS, 0, 60>>, <<FUNC_READ_INPUT_REGISTERS, 60, 60>>,
       <<FUNC_READ_INPUT_REGISTERS, 180, 60>>,
       <<FUNC_READ_HOLDING_REGISTERS, 0, 60>>, <<FUNC_READ_HOLDING_REGISTERS, 60, 60>>,
       <<FUNC_READ_HOLDING_REGISTERS, 120, 60>> >>

\* the converter of the loop a block belongs to
Converter(b) ==
    IF Plan[b + 1][1] = FUNC_READ_INPUT_REGISTERS
    THEN InputRegisterDefinition ELSE HoldingRegisterDefinition

\* the lists metric() returns for the registers lo .. hi, one after the other
RECURSIVE Extend(_, _, _, _)
Extend(table, store, lo, hi) ==
    IF lo > hi THEN <<>>
    ELSE IF lo = hi THEN metric(table, lo, store).metrics
    ELSE LET mid == (lo + hi) \div 2
         IN  Extend(table, store, lo, mid) \o Extend(table, store, mid + 1, hi)

\* for register in range(first, stop): self.metrics.extend(converter.metric(...))
\* The loop ends at the first register whose conversion raises; what the
\* registers before it returned has been appended by then.  `last` is the
\* last register handed to metric().
ConvertRange(table, store, first, stop) ==
    LET bad == {a \in first .. (stop - 1) : metric(table, a, store).exc # "none"}
    IN  IF bad = {}
        THEN [exc |-> "none", metrics |-> Extend(table, store, first, stop - 1),
              last |-> stop - 1]
        ELSE LET a == CHOOSE x \in bad : \A y \in bad : x <= y
             IN  [exc |-> metric(table, a, store).exc,
                  metrics |-> Extend(table, store, first, a - 1),
                  last |-> a]

(***************************************************************************)
(* The transport.                                                          *)
(***************************************************************************)
\* sizes of a short read
ShortSizes == {3}

\* what recv(want) may return when `avail` bytes have arrived
RecvSizes(want, avail, shortReads) ==
    {Min(want, avail)}
        \cup (IF shortReads < MaxPartials
              THEN {n \in ShortSizes : n < Min(want, avail)} ELSE {})

\* while len(payload) < size
PayloadLoopContinues_OneRecv(p, sz) == Len(p) = 0 /\ Len(p) < sz

PayloadLoopContinues(p, sz) == Len(p) < sz

(***************************************************************************)
(* report(): what an exception leaving the with blocks does.  The socket   *)
(* and the temporary file are closed; `except IOError` catches OSError and *)
(* its subclasses, everything else propagates to the caller.  The rename   *)
(* is skipped.                                                             *)
(***************************************************************************)
IOErrors_Everything ==
    {"OSError", "FileNotFoundError", "IsADirectoryError",
     "ConnectionRefusedError", "ConnectionResetError", "BrokenPipeError",
     "struct.error", "KeyError", "RuntimeError", "UnicodeDecodeError", "AssertionError",
     "TypeError"}

IOErrors ==
    {"OSError", "FileNotFoundError", "IsADirectoryError",
     "ConnectionRefusedError", "ConnectionResetError", "BrokenPipeError"}

Fail_RenameAnyway(exc) ==
    /\ error' = exc
    /\ pc' = IF exc \in IOErrors THEN "caught" ELSE "raised"
    /\ sockOpen' = FALSE
    /\ promFile' = tmpFile
    /\ tmpFile' = "absent"
    /\ UNCHANGED <<fetched, printed>>

Fail_PrintAnyway(exc) ==
    /\ error' = exc
    /\ pc' = "print"
    /\ sockOpen' = FALSE
    /\ UNCHANGED <<tmpFile, promFile, fetched, printed>>

Fail_SocketLeftOpen(exc) ==
    /\ error' = exc
    /\ pc' = IF exc \in IOErrors THEN "caught" ELSE "raised"
    /\ UNCHANGED <<sockOpen, tmpFile, promFile, fetched, printed>>

Fail(exc) ==
    /\ error' = exc
    /\ pc' = IF exc \in IOErrors THEN "caught" ELSE "raised"
    /\ sockOpen' = FALSE
    /\ UNCHANGED <<tmpFile, promFile, fetched, printed>>

Continue(next) ==
    /\ pc' = next
    /\ UNCHANGED <<error, sockOpen, tmpFile, promFile, fetched, printed>>

\* main(): report() is its last call; when report() returns, main returns 0
\* and that is the exit status; an exception that leaves report() leaves
\* main as well and the interpreter exits with status 1
ExitStatus(p) == IF p = "raised" THEN 1 ELSE 0

(***************************************************************************)
(* Initial state: a constructed PrometheusGivEnergy, no files written.     *)
(***************************************************************************)
\* the fields of a new instance, and the files and the connection before its
\* first report()
NewInstance ==
    /\ pc = "idle" /\ cycle = 0 /\ metrics = <<>> /\ carried = 0
    /\ tmpFile = "absent" /\ promFile = "absent"
    /\ error = "none" /\ fetched = FALSE /\ printed = FALSE
    /\ blk = 0 /\ request = NoRequest /\ sent = <<>>
    /\ header = <<>> /\ size = 0 /\ payload = <<>> /\ zeroReads = 0
    /\ response = NoResponse /\ converted = <<>>
    /\ sockOpen = FALSE /\ wire = <<>> /\ peerClosed = "no"
    /\ image = "zeros" /\ partials = 0

\* prometheus.PrometheusGivEnergy(host, port, prom_file)
CycleInit == cls = "prometheus.py" /\ NewInstance

RequestIdle ==
    /\ rqArgs = <<0, 0, 0>> /\ rqState = "new" /\ rqObj = NoRequest /\ rqMsg = <<>>

ConvertIdle ==
    /\ cvTable = "input" /\ cvReg = 0 /\ cvRaw = 0 /\ cvMore = 0 /\ cvStore = "full"
    /\ cvState = "new" /\ cvResult = Returned(<<>>)

ResponseIdle ==
    /\ rsData = <<>> /\ rsState = "new" /\ rsResult = [exc |-> "none", resp |-> NoResponse]

Init == CycleInit /\ RequestIdle /\ ConvertIdle /\ ResponseIdle

(***************************************************************************)
(* report(), up to the call of fetchMetrics: the temporary file is opened  *)
(* for writing, which creates or truncates it; fetchMetrics then creates   *)
(* the socket.  When the open fails (the directory is missing or not       *)
(* writable) the OSError is caught by report(): no file is created,        *)
(* fetchMetrics is not called and no socket exists.                        *)
(***************************************************************************)
ReportOpen ==
    /\ pc \in {"idle", "done", "caught", "raised"}
    /\ (cls = "__init__.py" => pc = "idle")
    /\ UNCHANGED <<cls, rqVars, cvVars, rsVars>>
    /\ cycle < MaxCycles
    /\ cycle' = cycle + 1
    /\ carried' = Len(metrics)
    /\ fetched' = FALSE /\ printed' = FALSE
    /\ blk' = 0 /\ request' = NoRequest /\ sent' = <<>>
    /\ header' = <<>> /\ size' = 0 /\ payload' = <<>> /\ zeroReads' = 0
    /\ response' = NoResponse /\ converted' = <<>>
    /\ wire' = <<>> /\ peerClosed' = "no" /\ partials' = 0
    /\ image' = "zeros"
    /\ \/ /\ tmpFile' = <<>>
          /\ error' = "none"
          /\ sockOpen' = TRUE
          /\ pc' = "connect"
       \/ /\ UNCHANGED tmpFile
          /\ error' = "FileNotFoundError"
          /\ sockOpen' = FALSE
          /\ pc' = IF "FileNotFoundError" \in IOErrors THEN "caught" ELSE "raised"
    /\ UNCHANGED <<metrics, promFile>>

\* s.connect((host, port)): the inverter accepts, serving some register
\* image, or the connection is refused
Connect ==
    /\ pc = "connect"
    /\ UNCHANGED <<cls, rqVars, cvVars, rsVars>>
    /\ \/ /\ \E img \in Images : image' = img
          /\ Continue("send")
       \/ /\ Fail("ConnectionRefusedError")
          /\ UNCHANGED image
    /\ UNCHANGED <<cycle, metrics, carried, blk, request, sent, header, size, payload,
                   zeroReads, response, converted, wire, peerClosed, partials>>

\* what s.sendall raises when the inverter has reset the connection
SendErrors == {"BrokenPipeError", "ConnectionResetError"}

\* The head of one loop iteration and of _transaction: the request of the
\* block is constructed, encoded and sent; the inverter answers, or it has
\* reset the connection and sendall raises.
Send ==
    /\ pc = "send"
    /\ cls = "prometheus.py"
    /\ UNCHANGED <<cls, rqVars, cvVars, rsVars>>
    /\ LET b == Plan[blk + 1] IN
       IF ~RequestArgsOk(b[1], b[2], b[3])
       THEN /\ Fail("AssertionError")
            /\ UNCHANGED <<request, sent, wire, header, size, payload, zeroReads,
                           partials, response, peerClosed>>
       ELSE LET req == GivEnergyRequest(b[1], b[2], b[3]) IN
            /\ request' = req
            /\ sent' = Append(sent, Encode(req))
            /\ header' = <<>> /\ size' = 0 /\ payload' = <<>>
            /\ zeroReads' = 0 /\ partials' = 0 /\ response' = NoResponse
            /\ \/ /\ \E answer \in Answers(req, image) : wire' = wire \o answer
                  /\ Continue("recv_header")
                  /\ UNCHANGED peerClosed
               \/ /\ \E exc \in SendErrors : Fail(exc)
                  /\ peerClosed' = "rst"
                  /\ UNCHANGED wire
    /\ UNCHANGED <<cycle, metrics, carried, blk, converted, image>>

\* header = s.recv(header_size) and the unpacking of the header
RecvHeader ==
    /\ pc = "recv_header"
    /\ UNCHANGED <<cls, rqVars, cvVars, rsVars>>
    /\ \/ /\ wire # <<>>
          /\ \E n \in RecvSizes(header_size, Len(wire), partials) :
                LET h == SubSeq(wire, 1, n)
                    u == UnpackHeader(h)
                IN  /\ header' = h
                    /\ wire' = SubSeq(wire, n + 1, Len(wire))
                    /\ partials' = IF n < Min(header_size, Len(wire))
                                   THEN partials + 1 ELSE partials
                    /\ IF ~u.ok
                       THEN Fail("struct.error") /\ UNCHANGED size
                       ELSE /\ size' = u.length - 2
                            /\ Continue(IF PayloadLoopContinues(<<>>, u.length - 2)
                                        THEN "recv_payload" ELSE "decode")
       \/ /\ wire = <<>> /\ peerClosed = "fin"
          /\ header' = <<>>
          /\ Fail("struct.error")
          /\ UNCHANGED <<wire, partials, size>>
       \/ /\ wire = <<>> /\ peerClosed = "rst"
          /\ Fail("ConnectionResetError")
          /\ UNCHANGED <<wire, partials, size, header>>
    /\ UNCHANGED <<cycle, metrics, carried, blk, request, sent, payload, zeroReads,
                   response, converted, peerClosed, image>>

\* one pass of the payload loop: payload += s.recv(size - len(payload))
RecvPayload ==
    /\ pc = "recv_payload"
    /\ UNCHANGED <<cls, rqVars, cvVars, rsVars>>
    /\ \/ /\ wire # <<>>
          /\ \E n \in RecvSizes(size - Len(payload), Len(wire), partials) :
                LET p == payload \o SubSeq(wire, 1, n)
                IN  /\ payload' = p
                    /\ wire' = SubSeq(wire, n + 1, Len(wire))
                    /\ partials' = IF n < Min(size - Len(payload), Len(wire))
                                   THEN partials + 1 ELSE partials
                    /\ Continue(IF PayloadLoopContinues(p, size)
                                THEN "recv_payload" ELSE "decode")
          /\ UNCHANGED zeroReads
       \/ /\ wire = <<>> /\ peerClosed = "fin"
          /\ zeroReads < MaxZeroReads
          /\ zeroReads' = zeroReads + 1
          /\ Continue(IF PayloadLoopContinues(payload, size)
                      THEN "recv_payload" ELSE "decode")
          /\ UNCHANGED <<payload, wire, partials>>
       \/ /\ wire = <<>> /\ peerClosed = "rst"
          /\ Fail("ConnectionResetError")
          /\ UNCHANGED <<payload, wire, partials, zeroReads>>
    /\ UNCHANGED <<cycle, metrics, carried, blk, request, sent, header, size,
                   response, converted, peerClosed, image>>

\* The inverter closes the stream while the client waits for a response;
\* what it had not delivered is lost.
PeerClose ==
    /\ pc \in {"recv_header", "recv_payload"}
    /\ UNCHANGED <<cls, rqVars, cvVars, rsVars>>
    /\ peerClosed = "no"
    /\ \E how \in {"fin", "rst"} : peerClosed' = how
    /\ wire' = <<>>
    /\ UNCHANGED <<pc, cycle, metrics, carried, tmpFile, promFile, error, fetched, printed,
                   blk, request, sent, header, size, payload, zeroReads, response,
                   converted, sockOpen, image, partials>>

\* The tail of _transaction: the payload is decoded and, unless the response
\* is an error, every requested register is read from it for the debug text
\* (the text is built even when debugging is off).
Decode ==
    /\ pc = "decode"
    /\ cls = "prometheus.py"
    /\ UNCHANGED <<cls, rqVars, cvVars, rsVars>>
    /\ LET d == DecodeResponse(payload)
           wanted == request.base_register ..
                        (request.base_register + request.register_count - 1)
       IN  IF d.exc # "none"
           THEN Fail(d.exc) /\ UNCHANGED response
           ELSE /\ response' = d.resp
                /\ IF ~d.resp.error /\ ~(wanted \subseteq DOMAIN d.resp.register)
                   THEN Fail("KeyError")
                   ELSE Continue("convert")
    /\ UNCHANGED <<cycle, metrics, carried, blk, request, sent, header, size, payload,
                   zeroReads, converted, wire, peerClosed, image, partials>>

\* The inner loop of fetchMetrics over the registers of the block, and the
\* step to the next block; after the last block the with block closes the
\* socket and fetchMetrics returns.
ConvertBlock ==
    /\ pc = "convert"
    /\ cls = "prometheus.py"
    /\ UNCHANGED <<cls, rqVars, cvVars, rsVars>>
    /\ LET b == Plan[blk + 1]
           r == ConvertRange(Converter(blk), response.register, b[2], b[2] + b[3])
       IN  /\ metrics' = metrics \o r.metrics
           /\ converted' = Append(converted, <<b[1], b[2], r.last>>)
           /\ IF r.exc # "none"
              THEN Fail(r.exc) /\ UNCHANGED blk
              ELSE IF blk + 1 < Len(Plan)
              THEN blk' = blk + 1 /\ Continue("send")
              ELSE /\ UNCHANGED blk
                   /\ fetched' = TRUE /\ sockOpen' = FALSE /\ pc' = "print"
                   /\ UNCHANGED <<error, tmpFile, promFile, printed>>
    /\ UNCHANGED <<cycle, carried, request, sent, header, size, payload, zeroReads,
                   response, wire, peerClosed, image, partials>>

\* the text lines a line record stands for: TYPE and value, or one line
TextLines(rec) == IF rec.line = "TYPE" THEN 2 ELSE 1

\* a line record of which `whole` text lines were written, followed by a
\* part of the next text line that is not all of it (and, when `whole` is 0,
\* not empty)
CutLine(rec, whole) == [line |-> "cut", of |-> rec, whole |-> whole]

\* what the temporary file may hold when a write of `lines` to it failed: the
\* bytes written before the failure, which end at any byte short of the last:
\* some of the line records, and possibly a cut one after them
PartialWrites(lines) ==
    {SubSeq(lines, 1, k) : k \in 0..(Len(lines) - 1)}
        \cup UNION {{Append(SubSeq(lines, 1, k), CutLine(lines[k + 1], w)) :
                        w \in 0..(TextLines(lines[k + 1]) - 1)} :
                    k \in 0..(Len(lines) - 1)}

\* printMetrics(f), and the close of f that follows it in report().  The
\* report line is printed, self.metrics is sorted, the metrics are printed.
\* print() fills the buffer of the file object, which is written to the file
\* when it is full (at the end of each line, when the file is a terminal) and
\* when the file is closed.  A write that fails inside print() ends
\* printMetrics with OSError: before the sort when it is the write of the
\* report line, after it otherwise.  A write that fails at the close finds
\* printMetrics returned.  The buffering is that of the file the path names
\* and of the file system, so which of these happens is not the program's
\* choice.
PrintMetrics ==
    /\ pc = "print"
    /\ cls = "prometheus.py"
    /\ UNCHANGED <<cls, rqVars, cvVars, rsVars>>
    /\ \/ /\ metrics' = SortMetrics(metrics)
          /\ tmpFile' = PrintedLines(cycle, metrics')
          /\ printed' = TRUE
          /\ pc' = "rename"
          /\ UNCHANGED error
       \/ /\ UNCHANGED metrics
          /\ tmpFile' \in PartialWrites(<<ReportLine(cycle)>>)
          /\ printed' = FALSE
          /\ error' = "OSError"
          /\ pc' = IF "OSError" \in IOErrors THEN "caught" ELSE "raised"
       \/ /\ metrics' = SortMetrics(metrics)
          /\ tmpFile' \in PartialWrites(PrintedLines(cycle, metrics'))
          /\ printed' \in BOOLEAN
          /\ error' = "OSError"
          /\ pc' = IF "OSError" \in IOErrors THEN "caught" ELSE "raised"
    /\ UNCHANGED <<cycle, carried, promFile, fetched, blk, request, sent, header,
                   size, payload, zeroReads, response, converted, sockOpen, wire,
                   peerClosed, image, partials>>

\* os.rename(tmp_prom_file, self.prom_file).  When it fails (the target is a
\* directory, or lies in a directory that is not writable) the OSError is
\* caught by report() and both files stay as they are.
Rename ==
    /\ pc = "rename"
    /\ UNCHANGED <<cls, rqVars, cvVars, rsVars>>
    /\ \/ /\ promFile' = tmpFile
          /\ tmpFile' = "absent"
          /\ pc' = "done"
          /\ UNCHANGED error
       \/ /\ error' = "IsADirectoryError"
          /\ pc' = IF "IsADirectoryError" \in IOErrors THEN "caught" ELSE "raised"
          /\ UNCHANGED <<promFile, tmpFile>>
    /\ UNCHANGED <<cycle, metrics, carried, fetched, printed, blk, request, sent,
                   header, size, payload, zeroReads, response, converted, sockOpen, wire,
                   peerClosed, image, partials>>

Next ==
    \/ ReportOpen
    \/ Connect
    \/ Send
    \/ RecvHeader
    \/ RecvPayload
    \/ PeerClose
    \/ Decode
    \/ ConvertBlock
    \/ PrintMetrics
    \/ Rename

Spec == Init /\ [][Next]_vars

(***************************************************************************)
(* The program run by `python -m prometheus_givenergy`.  main() builds the *)
(* PrometheusGivEnergy of the package's __init__.py and calls its report() *)
(* once.  That class has the same report(), the same request and response  *)
(* classes and the same transaction code as the one in prometheus.py, but  *)
(* its fetchMetrics makes two transactions, input 0-59 and holding 0-59,   *)
(* converts nothing (self.metrics stays empty), reads every requested      *)
(* register for the debug text whether or not the response is an error,    *)
(* and its printMetrics writes the report line only.                       *)
(***************************************************************************)
MainPlan ==
    << <<FUNC_READ_INPUT_REGISTERS, 0, 60>>, <<FUNC_READ_HOLDING_REGISTERS, 0, 60>> >>

\* main(): prom.report(), called once on a fresh object
MainReport == cls = "__init__.py" /\ ReportOpen

\* transaction(s, request), up to sendall; both requests were constructed
\* when fetchMetrics began, and their arguments pass the assertions
MainSend ==
    /\ pc = "send"
    /\ cls = "__init__.py"
    /\ UNCHANGED <<cls, rqVars, cvVars, rsVars>>
    /\ LET b == MainPlan[blk + 1]
           req == GivEnergyRequest(b[1], b[2], b[3])
       IN  /\ request' = req
           /\ sent' = Append(sent, Encode(req))
           /\ header' = <<>> /\ size' = 0 /\ payload' = <<>>
           /\ zeroReads' = 0 /\ partials' = 0 /\ response' = NoResponse
           /\ \/ /\ \E answer \in Answers(req, image) : wire' = wire \o answer
                 /\ Continue("recv_header")
                 /\ UNCHANGED peerClosed
              \/ /\ \E exc \in SendErrors : Fail(exc)
                 /\ peerClosed' = "rst"
                 /\ UNCHANGED wire
    /\ UNCHANGED <<cycle, metrics, carried, blk, converted, image>>

\* The tail of transaction: the payload is decoded and every requested
\* register is read from the response for the debug text; then the next
\* transaction, or the end of the with block and of fetchMetrics.
MainDecode ==
    /\ pc = "decode"
    /\ cls = "__init__.py"
    /\ UNCHANGED <<cls, rqVars, cvVars, rsVars>>
    /\ LET d == DecodeResponse(payload)
           wanted == request.base_register ..
                        (request.base_register + request.register_count - 1)
       IN  IF d.exc # "none"
           THEN Fail(d.exc) /\ UNCHANGED <<response, blk>>
           ELSE /\ response' = d.resp
                /\ IF ~(wanted \subseteq DOMAIN d.resp.register)
                   THEN Fail("KeyError") /\ UNCHANGED blk
                   ELSE IF blk + 1 < Len(MainPlan)
                   THEN blk' = blk + 1 /\ Continue("send")
                   ELSE /\ UNCHANGED blk
                        /\ fetched' = TRUE /\ sockOpen' = FALSE /\ pc' = "print"
                        /\ UNCHANGED <<error, tmpFile, promFile, printed>>
    /\ UNCHANGED <<cycle, metrics, carried, request, sent, header, size, payload,
                   zeroReads, converted, wire, peerClosed, image, partials>>

\* printMetrics(f), and the close of f that follows it in report(): the
\* report line is printed.  The line is written to the file by print() or,
\* when it stays in the buffer of the file object, at the close; a write that
\* fails inside print() ends printMetrics with OSError, one that fails at the
\* close finds printMetrics returned.
MainPrintMetrics ==
    /\ pc = "print"
    /\ cls = "__init__.py"
    /\ UNCHANGED <<cls, rqVars, cvVars, rsVars>>
    /\ \/ /\ tmpFile' = <<ReportLine(cycle)>>
          /\ printed' = TRUE
          /\ pc' = "rename"
          /\ UNCHANGED error
       \/ /\ tmpFile' \in PartialWrites(<<ReportLine(cycle)>>)
          /\ printed' \in BOOLEAN
          /\ error' = "OSError"
          /\ pc' = IF "OSError" \in IOErrors THEN "caught" ELSE "raised"
    /\ UNCHANGED <<cycle, metrics, carried, promFile, fetched, blk, request, sent,
                   header, size, payload, zeroReads, response, converted, sockOpen,
                   wire, peerClosed, image, partials>>

\* connect, the two recv steps, the peer and the rename are those of the
\* class in prometheus.py
MainNext ==
    \/ MainReport
    \/ Connect
    \/ MainSend
    \/ RecvHeader
    \/ RecvPayload
    \/ PeerClose
    \/ MainDecode
    \/ MainPrintMetrics
    \/ Rename

\* main(): prometheus_givenergy.PrometheusGivEnergy(host, port, prom_file)
MainInit == cls = "__init__.py" /\ NewInstance /\ RequestIdle /\ ConvertIdle /\ ResponseIdle

SpecMain == MainInit /\ [][MainNext]_vars

(***************************************************************************)
(* report() of an instance of either class.                                *)
(***************************************************************************)
ReportInit == Init \/ MainInit

ReportNext == MainNext \/ Next

SpecReport == ReportInit /\ [][ReportNext]_vars

(***************************************************************************)
(* A second specification: GivEnergyRequest.__init__ and encode() applied  *)
(* to arbitrary arguments.                                                 *)
(***************************************************************************)
FcArgs == 0 .. MaxFcArg
BaseArgs == (0 - 1) .. MaxBaseArg
CountArgs == (0 - 1) .. MaxCountArg

RequestInit ==
    /\ CycleInit /\ ConvertIdle /\ ResponseIdle
    /\ rqArgs \in FcArgs \X BaseArgs \X CountArgs
    /\ rqState = "new" /\ rqObj = NoRequest /\ rqMsg = <<>>

\* GivEnergyRequest.__init__: an assert that fails raises AssertionError and
\* no object comes to exist
Construct ==
    /\ rqState = "new"
    /\ UNCHANGED <<cycleVars, cvVars, rsVars>>
    /\ IF RequestArgsOk(rqArgs[1], rqArgs[2], rqArgs[3])
       THEN /\ rqObj' = GivEnergyRequest(rqArgs[1], rqArgs[2], rqArgs[3])
            /\ rqState' = "constructed"
       ELSE /\ rqState' = "AssertionError"
            /\ UNCHANGED rqObj
    /\ UNCHANGED <<rqArgs, rqMsg>>

\* encode() on the constructed request
EncodeRequest ==
    /\ rqState = "constructed"
    /\ UNCHANGED <<cycleVars, cvVars, rsVars>>
    /\ rqMsg' = Encode(rqObj)
    /\ rqState' = "encoded"
    /\ UNCHANGED <<rqArgs, rqObj>>

RequestNext == Construct \/ EncodeRequest

SpecRequest == RequestInit /\ [][RequestNext]_vars

(***************************************************************************)
(* A third specification: metric() applied to arbitrary arguments.  The    *)
(* converter is one of the two of the program or a third subclass of       *)
(* ModbusRegisterConversion whose table holds the kinds of definition the  *)
(* two tables do not have.                                                 *)
(***************************************************************************)
OtherRegisterDefinition ==
  <<
  (*   0 *) [name |-> "flag8", type |-> "BOOL", true_value |-> 8],
  (*   1 *) [name |-> "flag", type |-> "BOOL"],
  (*   2 *) [name |-> "total", type |-> "UINT32_HIGH", more |-> 3, scaling |-> 10, unit |-> "kwh"],
  (*   3 *) [cont |-> "total"],
  (*   4 *) [name |-> "total_alone", type |-> "UINT32_HIGH"],
  (*   5 *) [name |-> "total_apart", type |-> "UINT32_HIGH", more |-> 7],
  (*   6 *) [name |-> "total_low", type |-> "UINT32_LOW"],
  (*   7 *) [cont |-> "total_apart"],
  (*   8 *) [name |-> "first", name2 |-> "second", type |-> "DUINT8", unit |-> "temp_c",
             prometheus |-> "counter"],
  (*   9 *) [name |-> "signed", type |-> "INT16", scaling |-> 10, unit |-> "amps"],
  (*  10 *) [name |-> "text", type |-> "ASCII", more |-> <<11>>],
  (*  11 *) [cont |-> "text"],
  (*  12 *) [name |-> "text_alone", type |-> "ASCII"],
  (*  13 *) [name |-> "first_alone", type |-> "DUINT8"],
  (*  14 *) [unknown |-> "other_reg014"],
  (*  15 *) [name |-> "real", type |-> "FLOAT32"]
  >>

\* the register_definition of a converter
RegisterDefinition(t) ==
    CASE t = "input" -> InputRegisterDefinition
      [] t = "holding" -> HoldingRegisterDefinition
      [] t = "other" -> OtherRegisterDefinition

\* the largest value of a 16-bit register
MaxRegisterValue == 65535

\* register values tried for every definition
RawCases ==
    {0, 1, 2, 8, 255, 256, 258, 12594, 16706, 16768, 32767, 32768, 32833, 40000, 65535}
\* values tried for the registers beside the one converted
MoreCases == {0, 12594, 65535}
\* definitions of the third table converted with every 16-bit value
WholeRangeRegisters == {0, 2, 8, 9, 10}

\* the addresses a register store may hold
StoreAddresses == 0 .. Len(InputRegisterDefinition)

\* the register store of a conversion
StoreOf(kind, register, raw, more) ==
    IF kind = "empty" THEN NoRegisters
    ELSE [a \in StoreAddresses |-> IF a = register THEN raw ELSE more]

ConvertInit ==
    /\ CycleInit /\ RequestIdle /\ ResponseIdle
    /\ \/ /\ cvTable \in {"input", "holding", "other"}
          /\ cvReg \in (0 - 1) .. Len(RegisterDefinition(cvTable))
          /\ cvRaw \in RawCases
          /\ cvMore \in MoreCases
          /\ cvStore \in {"full", "empty"}
       \/ /\ cvTable = "other"
          /\ cvReg \in WholeRangeRegisters
          /\ cvRaw \in 0 .. MaxRegisterValue
          /\ cvMore = 12594
          /\ cvStore = "full"
    /\ cvState = "new" /\ cvResult = Returned(<<>>)

\* converter.metric(register, register_store)
ConvertOne ==
    /\ cvState = "new"
    /\ cvResult' = metric(RegisterDefinition(cvTable), cvReg,
                          StoreOf(cvStore, cvReg, cvRaw, cvMore))
    /\ cvState' = "converted"
    /\ UNCHANGED <<cvTable, cvReg, cvRaw, cvMore, cvStore>>
    /\ UNCHANGED <<cycleVars, rqVars, rsVars>>

ConvertNext == ConvertOne

SpecMetric == ConvertInit /\ [][ConvertNext]_vars

(***************************************************************************)
(* A fourth specification: GivEnergyResponse() applied to the payloads an  *)
(* inverter may answer with.                                               *)
(***************************************************************************)
\* the requests answered: those of the plan and a short one
ResponseRequests ==
    {Plan[i] : i \in DOMAIN Plan} \cup {<<FUNC_READ_HOLDING_REGISTERS, 0, 2>>}

\* values of the trailing check field
CheckCases == {0, 1, 258, 53717, 65535}

\* the payload of a response frame: what follows its 8 header bytes
ResponsePayload(req, img, err, check) ==
    LET frame == DeviceResponse(req, img, err, check)
    IN  SubSeq(frame, header_size + 1, Len(frame))

ResponseInit ==
    /\ CycleInit /\ RequestIdle /\ ConvertIdle
    /\ rsData \in {ResponsePayload(GivEnergyRequest(r[1], r[2], r[3]), img, err, c) :
                        r \in ResponseRequests, img \in Images, err \in BOOLEAN,
                        c \in CheckCases}
    /\ rsState = "new" /\ rsResult = [exc |-> "none", resp |-> NoResponse]

\* response = GivEnergyResponse(self, payload)
DecodeOne ==
    /\ rsState = "new"
    /\ rsResult' = DecodeResponse(rsData)
    /\ rsState' = "decoded"
    /\ UNCHANGED rsData
    /\ UNCHANGED <<cycleVars, rqVars, cvVars>>

ResponseNext == DecodeOne

SpecResponse == ResponseInit /\ [][ResponseNext]_vars

(***************************************************************************)
(* GivEnergyResponse on a payload cut short: every proper prefix of the    *)
(* payloads above.                                                         *)
(***************************************************************************)
\* the first k bytes of a payload, and fewer than all of them
Truncated(bytes, k) == SubSeq(bytes, 1, Min(k, Len(bytes) - 1))

TruncatedInit ==
    /\ CycleInit /\ RequestIdle /\ ConvertIdle
    /\ rsData \in {Truncated(ResponsePayload(GivEnergyRequest(r[1], r[2], r[3]), img, err, 0),
                             k) :
                        r \in ResponseRequests, img \in Images, err \in BOOLEAN,
                        k \in 0 .. (36 + 2 * 60)}
    /\ rsState = "new" /\ rsResult = [exc |-> "none", resp |-> NoResponse]

SpecTruncated == TruncatedInit /\ [][ResponseNext]_vars

(***************************************************************************)
(* Properties.                                                             *)
(***************************************************************************)
\* the response of the current transaction has been received in full: the 8
\* header bytes and the header.length - 2 payload bytes
Drained ==
    /\ Len(header) = 8
    /\ size = FromU16BE(header[5], header[6]) - 2
    /\ Len(payload) = size

\* C1: within a polling cycle requests and responses strictly alternate on
\* the one connection.  A request is sent only when every request before it
\* has had its response received in full (8 header bytes and length - 2
\* payload bytes) and nothing of it is left on the wire; the transaction
\* goes past its receive loop only with the response received in full; so
\* the requests sent never exceed the completed transactions by more than one.
C1_StrictAlternation ==
    [][ /\ (Len(sent') > Len(sent) =>
                /\ Len(sent') = Len(sent) + 1
                /\ wire = <<>>
                /\ (Len(sent) > 0 => Drained))
        /\ (pc' = "decode" => Drained')
        /\ Len(sent') \in {blk', blk' + 1}
        /\ (sockOpen' = sockOpen \/ pc' = "connect" \/ ~sockOpen') ]_vars

C1_Witness == Len(sent) = 3 /\ pc = "recv_payload" /\ partials = 2

\* the (function code, base, count) of each message sent, read from its bytes
SentRequests ==
    [i \in DOMAIN sent |->
        <<sent[i][28], FromU16BE(sent[i][29], sent[i][30]),
          FromU16BE(sent[i][31], sent[i][32])>>]

C2_Expected ==
    << <<4, 0, 60>>, <<4, 60, 60>>, <<4, 180, 60>>,
       <<3, 0, 60>>, <<3, 60, 60>>, <<3, 120, 60>> >>

\* C2: the requests sent in a cycle are always the first n of: input (0,60),
\* (60,60), (180,60), holding (0,60), (60,60), (120,60); a cycle whose
\* fetch succeeded has sent all six; the registers handed to the converter
\* are those of the blocks requested, so no holding address from 180 up is
\* ever converted.
C2_PollingPlan ==
    /\ Len(sent) <= 6
    /\ \A i \in DOMAIN sent : SentRequests[i] = C2_Expected[i]
    /\ (fetched => Len(sent) = 6 /\ Len(converted) = 6)
    /\ Len(converted) <= Len(sent)
    /\ \A i \in DOMAIN converted :
          /\ converted[i][1] = C2_Expected[i][1]
          /\ converted[i][2] = C2_Expected[i][2]
          /\ converted[i][3] < C2_Expected[i][2] + C2_Expected[i][3]
          /\ (converted[i][1] = 3 => converted[i][3] < 180)

C2_Witness == pc = "done" /\ fetched /\ Len(sent) = 6 /\ cycle = 1

ConnectionErrors ==
    {"ConnectionError", "ConnectionResetError", "ConnectionAbortedError",
     "ConnectionRefusedError", "BrokenPipeError"}

\* C3: once a recv of the payload loop has returned zero bytes (the peer
\* closed the stream before the response was complete), the transaction has
\* ended with a connection error and the cycle has failed.
C3_ClosedStreamFails ==
    zeroReads > 0 => pc \in {"caught", "raised"} /\ error \in ConnectionErrors

\* C4: when the response to a block's request is an error response, the
\* conversion of every address of the block returns an empty list.
C4_ErrorResponseEmitsNothing ==
    (pc = "convert" /\ response.error) =>
        \A a \in Plan[blk + 1][2] .. (Plan[blk + 1][2] + Plan[blk + 1][3] - 1) :
            metric(Converter(blk), a, response.register) = Returned(<<>>)

DecodeErrors == {"RuntimeError", "UnicodeDecodeError"}

\* the output file was not written by the current cycle
OutputNotOfThisCycle == promFile = "absent" \/ promFile[1].cycle < cycle

\* C5: a decode error in the conversion of a register aborts the cycle at
\* that point: the requests sent are those up to the failing block, the
\* fetch and the print did not complete, nothing was written to the
\* temporary file, and the output file holds nothing of this cycle.
C5_DecodeErrorAborts ==
    error \in DecodeErrors =>
        /\ pc = "raised"
        /\ Len(sent) = blk + 1
        /\ ~fetched /\ ~printed
        /\ tmpFile = <<>>
        /\ OutputNotOfThisCycle

C5_Witness ==
    /\ error = "RuntimeError" /\ blk >= 1 /\ Len(metrics) > carried
    /\ cycle = 2 /\ promFile # "absent" /\ pc = "raised"

\* C6: the output file changes only by the rename, which happens only
\* after fetchMetrics and printMetrics of the cycle have both completed
\* without error, and gives it the content of the temporary file; so a
\* cycle that fails leaves the output file as it was.
C6_RenameOnlyAfterSuccess ==
    [][promFile' # promFile =>
          /\ pc = "rename" /\ pc' = "done"
          /\ fetched /\ printed /\ error = "none"
          /\ promFile' = tmpFile
          /\ promFile'[1] = ReportLine(cycle)]_vars

C6_Witness ==
    /\ pc \in {"caught", "raised"} /\ cycle = 2
    /\ promFile # "absent" /\ promFile[1] = ReportLine(1) /\ Len(promFile) > 1

\* C7: what a cycle writes are the metrics converted in that cycle: one
\* line for the report and one for each metric appended since report()
\* was called.
C7_OutputIsOwnMetrics ==
    pc = "rename" => Len(tmpFile) = 1 + (Len(metrics) - carried)

\* C8: an encoded request is 34 bytes: the header 59 59 | 00 01 | 00 1C |
\* 01 | 02, then 'AB1234G567', the padding 8 in eight bytes, the slave
\* address 0x32, the function code, the base register, the register count
\* and the CRC, each multi-byte field high byte first; unpacking the first 8
\* bytes gives back tid 0x5959, pid 1, length 28, uid 1, fid 2.
C8_EncodeLayout ==
    rqState = "encoded" =>
        /\ Len(rqMsg) = 34
        /\ SubSeq(rqMsg, 1, 8) = <<89, 89, 0, 1, 0, 28, 1, 2>>
        /\ SubSeq(rqMsg, 9, 18) = <<65, 66, 49, 50, 51, 52, 71, 53, 54, 55>>
        /\ SubSeq(rqMsg, 19, 26) = <<0, 0, 0, 0, 0, 0, 0, 8>>
        /\ rqMsg[27] = 50
        /\ rqMsg[28] = rqArgs[1]
        /\ rqMsg[29] * 256 + rqMsg[30] = rqArgs[2]
        /\ rqMsg[31] * 256 + rqMsg[32] = rqArgs[3]
        /\ \A i \in 1 .. 34 : rqMsg[i] \in Byte
        /\ UnpackHeader(SubSeq(rqMsg, 1, 8)) =
              [ok |-> TRUE, tid |-> 22873, pid |-> 1, length |-> 28, uid |-> 1, fid |-> 2]
        /\ UnpackHeader(SubSeq(rqMsg, 1, 8)).length = (Len(rqMsg) - 8) + 2

C8_Witness == rqState = "encoded" /\ rqArgs = <<3, 120, 60>>

\* C9: the CRC field of an encoded request is the CRC-16/MODBUS of the five
\* bytes function code, base high, base low, count high, count low, and of
\* nothing else; for (4, 0, 60) it is 0xD1D5, the CRC-16/MODBUS of
\* 04 00 00 00 3C.
C9_CrcOverFiveBytes ==
    rqState = "encoded" =>
        LET crc == rqMsg[33] * 256 + rqMsg[34]
        IN  /\ crc = CrcModbus(<<rqArgs[1], rqArgs[2] \div 256, rqArgs[2] % 256,
                                 rqArgs[3] \div 256, rqArgs[3] % 256>>)
            /\ (rqArgs = <<4, 0, 60>> => crc = 53717)
            /\ (rqArgs = <<3, 0, 60>> => crc = 4448)
            /\ (rqArgs = <<3, 120, 60>> => crc = 2272)

C9_Witness == rqState = "encoded" /\ rqArgs = <<4, 0, 60>> /\ rqMsg[33] = 209

\* C10: a request object exists only with function code 3 or 4, base in
\* 0..255 and count in 1..255-base; with any other arguments the
\* construction fails; the six requests of the polling plan are within
\* these limits.
C10_ArgsValid(fc, base, count) ==
    /\ fc \in {3, 4}
    /\ base \in 0 .. 255
    /\ count \in 1 .. (255 - base)
    /\ base + count - 1 <= 255

C10_RequestInvariant ==
    /\ (rqState \in {"constructed", "encoded"} =>
            /\ C10_ArgsValid(rqObj.function_code, rqObj.base_register, rqObj.register_count)
            /\ <<rqObj.function_code, rqObj.base_register, rqObj.register_count>> = rqArgs)
    /\ (rqState = "AssertionError" => ~C10_ArgsValid(rqArgs[1], rqArgs[2], rqArgs[3]))
    /\ (rqState # "new" /\ ~C10_ArgsValid(rqArgs[1], rqArgs[2], rqArgs[3])
            => rqState = "AssertionError")
    /\ \A i \in DOMAIN Plan : C10_ArgsValid(Plan[i][1], Plan[i][2], Plan[i][3])

C10_Witness == rqState = "AssertionError" /\ rqArgs = <<4, 200, 56>>

\* the payload with its last two bytes replaced by the check value c
WithCheck(data, c) == SubSeq(data, 1, Len(data) - 2) \o <<c \div 256, c % 256>>

\* C11: the decoding of a response does not depend on its trailing checksum:
\* the payload is decoded without error whatever its last two bytes are, they
\* are read into the check field, and with any other value in their place
\* the error flag, function code, base register, register count and register
\* map decoded are the same.
C11_ChecksumIgnored ==
    rsState = "decoded" =>
        /\ rsResult.exc = "none"
        /\ rsResult.resp.check = rsData[Len(rsData) - 1] * 256 + rsData[Len(rsData)]
        /\ \A c \in CheckCases :
              LET other == DecodeResponse(WithCheck(rsData, c))
              IN  /\ other.exc = "none"
                  /\ other.resp.check = c
                  /\ other.resp.error = rsResult.resp.error
                  /\ other.resp.function_code = rsResult.resp.function_code
                  /\ other.resp.base_register = rsResult.resp.base_register
                  /\ other.resp.register_count = rsResult.resp.register_count
                  /\ other.resp.register = rsResult.resp.register

C11_Witness ==
    /\ rsState = "decoded" /\ rsResult.exc = "none" /\ rsResult.resp.check = 65535
    /\ ~rsResult.resp.error /\ rsResult.resp.register_count = 60
    /\ rsResult.resp.register[59] = 8

\* the register converted lies in a block of the polling plan of its converter
InPlan ==
    \E i \in DOMAIN Plan :
        /\ cvTable = (IF Plan[i][1] = 4 THEN "input" ELSE "holding")
        /\ cvReg \in Plan[i][2] .. (Plan[i][2] + Plan[i][3] - 1)

\* C12: both tables have an entry for every address of their range, holding
\* 0..201 and input 0..301, and none beyond; so for every address of a block
\* of the polling plan the lookup of the definition succeeds, and with a
\* store that holds the registers the conversion does not end in KeyError.
C12_TablesTotal ==
    /\ Len(HoldingRegisterDefinition) = 202
    /\ Len(InputRegisterDefinition) = 302
    /\ (cvTable = "holding" =>
            (Defined(HoldingRegisterDefinition, cvReg) <=> cvReg \in 0 .. 201))
    /\ (cvTable = "input" =>
            (Defined(InputRegisterDefinition, cvReg) <=> cvReg \in 0 .. 301))
    /\ (InPlan => Defined(RegisterDefinition(cvTable), cvReg))
    /\ (InPlan /\ cvState = "converted" /\ cvStore = "full" => cvResult.exc # "KeyError")

C12_Witness ==
    /\ cvState = "converted" /\ cvTable = "input" /\ cvReg = 239 /\ cvStore = "full"
    /\ cvResult.exc = "none"

\* the companion addresses a definition lists
Companions(rd) ==
    IF "more" \notin DOMAIN rd THEN {}
    ELSE IF Get(rd, "type", "UINT16") = "ASCII"
         THEN {rd.more[i] : i \in DOMAIN rd.more}
         ELSE {rd.more}

\* a primary definition: neither a continuation nor an unknown marker
IsPrimary(rd) == "cont" \notin DOMAIN rd /\ "unknown" \notin DOMAIN rd

\* the addresses some primary definition of a table lists as companions
CompanionsIn(table) ==
    UNION {Companions(table[i]) : i \in {j \in DOMAIN table : IsPrimary(table[j])}}
InputCompanions == CompanionsIn(InputRegisterDefinition)
HoldingCompanions == CompanionsIn(HoldingRegisterDefinition)

\* C13: in the input and the holding table every companion address listed
\* by a primary definition has an entry in the same table and that entry is
\* marked 'cont'; the conversion of a companion address returns an empty list.
C13_CompanionsAreContinuations ==
    cvTable \in {"input", "holding"} =>
        LET table == RegisterDefinition(cvTable)
            companions == IF cvTable = "input" THEN InputCompanions ELSE HoldingCompanions
        IN  /\ (Defined(table, cvReg) /\ IsPrimary(table[cvReg + 1]) =>
                    \A c \in Companions(table[cvReg + 1]) :
                        /\ c \in 0 .. (Len(table) - 1)
                        /\ "cont" \in DOMAIN table[c + 1])
            /\ (cvState = "converted" /\ cvReg \in companions =>
                    cvResult = [exc |-> "none", metrics |-> <<>>])

C13_Witness ==
    /\ cvState = "converted" /\ cvTable = "input" /\ cvReg = 85 /\ cvReg \in InputCompanions
    /\ cvStore = "full" /\ cvResult.exc = "none" /\ cvResult.metrics = <<>>

\* C14: metric() returns an empty list for every address whose definition
\* is a continuation or an unknown marker, also when the register store
\* holds nothing; for every other address it raises, or returns exactly one
\* metric, or exactly two when the definition is DUINT8.
C14_MetricCount ==
    cvState = "converted" /\ cvReg \in 0 .. (Len(RegisterDefinition(cvTable)) - 1) =>
        LET rd == RegisterDefinition(cvTable)[cvReg + 1]
        IN  /\ Len(cvResult.metrics) <= 2
            /\ (~IsPrimary(rd) => cvResult.exc = "none" /\ cvResult.metrics = <<>>)
            /\ (IsPrimary(rd) =>
                    \/ cvResult.exc # "none" /\ cvResult.metrics = <<>>
                    \/ /\ cvResult.exc = "none"
                       /\ Len(cvResult.metrics) = (IF Get(rd, "type", "UINT16") = "DUINT8"
                                                   THEN 2 ELSE 1))

C14_Witness ==
    /\ cvState = "converted" /\ cvTable = "holding" /\ cvReg = 4 /\ cvStore = "empty"
    /\ "unknown" \in DOMAIN HoldingRegisterDefinition[5]
    /\ cvResult.exc = "none" /\ cvResult.metrics = <<>>

\* the definition of the register converted
TheDefinition == RegisterDefinition(cvTable)[cvReg + 1]

\* metric() has been applied, with a store that holds the registers, to a
\* primary definition of the given encoding
ConvertedAs(encoding) ==
    /\ cvState = "converted" /\ cvStore = "full"
    /\ cvReg \in 0 .. (Len(RegisterDefinition(cvTable)) - 1)
    /\ IsPrimary(TheDefinition)
    /\ "name" \in DOMAIN TheDefinition
    /\ Get(TheDefinition, "type", "UINT16") = encoding

\* metric() returned one metric, whose value is the number (hi * 65536 + num) / den
\* of the given Python type
ReturnedNumber(type, hi, num, den) ==
    /\ cvResult.exc = "none"
    /\ Len(cvResult.metrics) = 1
    /\ cvResult.metrics[1].name = TheDefinition.name
    /\ cvResult.metrics[1].value = [t |-> type, hi |-> hi, num |-> num, den |-> den, s |-> <<>>]

\* metric() raised a decode error and returned nothing
DecodeFailed == cvResult.exc \in DecodeErrors /\ cvResult.metrics = <<>>

\* C15: for a BOOL definition with true value t (1 when not given) the
\* conversion of raw value v raises a decode error unless v is 0 or t, and
\* otherwise gives the int 0 for v = 0 and the int 1 for v = t; raw 8 at
\* input register 115 (usb_inserted, t = 8) gives 1 and raw 1 fails.
C15_BoolNormalised ==
    ConvertedAs("BOOL") =>
        LET t == IF "true_value" \in DOMAIN TheDefinition THEN TheDefinition.true_value ELSE 1
        IN  /\ (cvRaw \notin {0, t} => DecodeFailed)
            /\ (cvRaw = 0 => ReturnedNumber("int", 0, 0, 1))
            /\ (cvRaw = t => ReturnedNumber("int", 0, 1, 1))
            /\ (cvTable = "input" /\ cvReg = 115 =>
                    /\ t = 8
                    /\ (cvRaw = 8 => cvResult.metrics[1].value.num = 1)
                    /\ (cvRaw = 1 => cvResult.exc = "RuntimeError"))

C15_Witness ==
    /\ ConvertedAs("BOOL") /\ cvTable = "input" /\ cvReg = 115 /\ cvRaw = 8
    /\ cvResult.exc = "none" /\ cvResult.metrics[1].name = "usb_inserted"
    /\ cvResult.metrics[1].value.num = 1

\* C16: for a UINT32_HIGH definition at address a the conversion raises a
\* decode error and returns nothing when 'more' is missing or is not a + 1;
\* otherwise it returns one metric whose value is the float
\* (store[a] * 65536 + store[a + 1]) / scale, both words in 0..65535.
C16_Uint32Combined ==
    ConvertedAs("UINT32_HIGH") =>
        IF "more" \notin DOMAIN TheDefinition \/ TheDefinition.more # cvReg + 1
        THEN DecodeFailed
        ELSE /\ ReturnedNumber("float", cvRaw, cvMore,
                               IF "scaling" \in DOMAIN TheDefinition
                               THEN TheDefinition.scaling ELSE 1)
             /\ cvResult.metrics[1].value.hi \in 0 .. 65535
             /\ cvResult.metrics[1].value.num \in 0 .. 65535

C16_Witness ==
    /\ ConvertedAs("UINT32_HIGH") /\ cvTable = "other" /\ cvReg = 2 /\ cvRaw = 65535
    /\ cvMore = 12594
    /\ cvResult.exc = "none" /\ cvResult.metrics[1].value.hi = 65535
    /\ cvResult.metrics[1].value.num = 12594 /\ cvResult.metrics[1].value.den = 10

\* C17: for a DUINT8 definition (with a second name) and raw value v the
\* conversion returns two metrics: the primary name with the int v div 256,
\* then the second name with the int v mod 256; both bytes are in 0..255
\* and give v back as high * 256 + low; the two metrics have the unit and
\* the prometheus kind of the definition.  Raw 0x0102 gives 1 and 2.
C17_Duint8Split ==
    ConvertedAs("DUINT8") /\ "name2" \in DOMAIN TheDefinition =>
        /\ cvResult.exc = "none"
        /\ Len(cvResult.metrics) = 2
        /\ LET first == cvResult.metrics[1]
               second == cvResult.metrics[2]
           IN  /\ first.name = TheDefinition.name
               /\ second.name = TheDefinition.name2
               /\ first.value.t = "int" /\ second.value.t = "int"
               /\ first.value.den = 1 /\ second.value.den = 1
               /\ first.value.hi = 0 /\ second.value.hi = 0
               /\ first.value.num \in 0 .. 255
               /\ second.value.num \in 0 .. 255
               /\ first.value.num * 256 + second.value.num = cvRaw
               /\ first.unit = second.unit
               /\ first.unit = (IF "unit" \in DOMAIN TheDefinition THEN TheDefinition.unit ELSE "")
               /\ first.prom_type = second.prom_type
               /\ (cvRaw = 258 => first.value.num = 1 /\ second.value.num = 2)

C17_Witness ==
    /\ ConvertedAs("DUINT8") /\ cvTable = "other" /\ cvReg = 8 /\ cvRaw = 258
    /\ Len(cvResult.metrics) = 2
    /\ cvResult.metrics[1].name = "first" /\ cvResult.metrics[1].value.num = 1
    /\ cvResult.metrics[2].name = "second" /\ cvResult.metrics[2].value.num = 2
    /\ cvResult.metrics[2].prom_type = "counter"

\* C18: for an INT16 definition and raw value v the conversion returns one
\* metric whose value is the float s / scale, where s is v for v < 32768 and
\* v - 65536 otherwise, so s is in -32768..32767.
C18_Int16Signed ==
    ConvertedAs("INT16") =>
        LET signed == IF cvRaw < 32768 THEN cvRaw ELSE cvRaw - 65536
        IN  /\ ReturnedNumber("float", 0, signed,
                              IF "scaling" \in DOMAIN TheDefinition
                              THEN TheDefinition.scaling ELSE 1)
            /\ cvResult.metrics[1].value.num \in (0 - 32768) .. 32767

C18_Witness ==
    /\ ConvertedAs("INT16") /\ cvTable = "other" /\ cvReg = 9 /\ cvRaw = 65535
    /\ cvResult.exc = "none" /\ cvResult.metrics[1].value.num = 0 - 1
    /\ cvResult.metrics[1].value.den = 10

\* the two bytes of each of the registers a, c1, .., cn of an ASCII
\* definition, high byte first, in that order
AsciiBytes ==
    LET more == TheDefinition.more
    IN  [i \in 1 .. 2 * (Len(more) + 1) |->
            LET w == IF i <= 2 THEN cvRaw ELSE cvMore
            IN  IF i % 2 = 1 THEN w \div 256 ELSE w % 256]

\* C19: for an ASCII definition at address a with companions c1..cn the
\* conversion fails when a byte of one of these registers is above 0x7F,
\* and otherwise returns one metric whose value is the string of the
\* 2(n+1) characters that the bytes of the registers a, c1, .., cn give.
C19_AsciiText ==
    ConvertedAs("ASCII") /\ "more" \in DOMAIN TheDefinition =>
        IF \E i \in DOMAIN AsciiBytes : AsciiBytes[i] > 127
        THEN DecodeFailed
        ELSE /\ cvResult.exc = "none"
             /\ Len(cvResult.metrics) = 1
             /\ cvResult.metrics[1].value.t = "str"
             /\ Len(cvResult.metrics[1].value.s) = Len(AsciiBytes)
             /\ cvResult.metrics[1].value.s = AsciiBytes


\* the registers of block b of the plan as the inverter holds them
BlockStore(img, b) ==
    [a \in Plan[b][2] .. (Plan[b][2] + Plan[b][3] - 1) |->
        DeviceRegister(img, Plan[b][1], a)]

\* what the six blocks of the plan emit, in the order of emission: block
\* after block, ascending address within a block
RECURSIVE Emission(_, _)
Emission(img, b) ==
    IF b = 0 THEN <<>>
    ELSE Emission(img, b - 1)
            \o Extend(Converter(b - 1), BlockStore(img, b),
                      Plan[b][2], Plan[b][2] + Plan[b][3] - 1)

\* ms is in non-decreasing order of name
SortedByName(ms) ==
    \A i \in 1 .. (Len(ms) - 1) : NameRank[ms[i].name] <= NameRank[ms[i + 1].name]

\* the metrics of every name are the same in after and before, in the same order
SameOrderPerName(after, before) ==
    \A n \in DOMAIN NameRank :
        SelectSeq(after, LAMBDA m : m.name = n) = SelectSeq(before, LAMBDA m : m.name = n)

\* the step that sorts and prints leaves the metric sequence in
\* non-decreasing order of name with the metrics of equal name in their
\* order of emission, and prints it in that order
StableSortPrinted ==
    /\ Len(metrics') = Len(metrics)
    /\ SortedByName(metrics')
    /\ SameOrderPerName(metrics', metrics)
    /\ Len(tmpFile') = 1 + Len(metrics')
    /\ \A i \in DOMAIN metrics' :
          /\ tmpFile'[i + 1].name = metrics'[i].name
          /\ tmpFile'[i + 1].unit = metrics'[i].unit
          /\ tmpFile'[i + 1].value = metrics'[i].value

\* the output file was written by a run over the register values the
\* inverter serves in this cycle: its metric lines are what these values
\* alone give
SameValuesBefore ==
    /\ promFile # "absent"
    /\ Tail(promFile) = Tail(PrintedLines(0, SortMetrics(Emission(image, Len(Plan)))))

\* C20: the metric sequence that is output is in non-decreasing order of
\* name, metrics of equal name keep their order of emission, and two runs
\* over the same register values output the same metric sequence: a cycle
\* over the values an earlier run was over prints the metric lines that run
\* printed.
C20_StableSortDeterministic ==
    [][pc = "print" /\ pc' = "rename" =>
          (/\ StableSortPrinted
           /\ (SameValuesBefore => Tail(tmpFile') = Tail(promFile)))]_vars

\* the part of C20 that holds: order and ties
StableSortAlways == [][pc = "print" /\ pc' = "rename" => StableSortPrinted]_vars

\* and two runs over the same values agree when the second starts with an
\* empty list
DeterministicFromEmpty ==
    [][pc = "print" /\ pc' = "rename" /\ carried = 0 =>
          metrics' = SortMetrics(Emission(image, Len(Plan)))]_vars

\* C21: the payload loop appends what each recv returns, in the order of
\* arrival, and never holds more than header.length - 2 bytes; the decoder
\* is given the payload of the frame the inverter sent, however the
\* transport split it.
C21_PayloadAccumulated ==
    [][ /\ (pc = "recv_payload" /\ payload' # payload =>
                LET k == Len(payload') - Len(payload)
                IN  /\ k \in 1 .. (size - Len(payload))
                    /\ payload' = payload \o SubSeq(wire, 1, k)
                    /\ wire' = SubSeq(wire, k + 1, Len(wire)))
        /\ (pc' \in {"recv_payload", "decode"} => Len(payload') <= size')
        /\ (pc' = "decode" =>
                /\ Len(payload') = FromU16BE(header'[5], header'[6]) - 2
                /\ header' \o payload' \in Answers(request', image')) ]_vars

C21_Witness ==
    /\ pc = "decode" /\ partials = 2 /\ Len(payload) = 34 + 2 * 60 + 2
    /\ header \o payload = DeviceResponse(request, image, FALSE, 0)

\* C22: a header that was received has 8 bytes, also when the transport
\* delivers fewer at first, and the payload size is its length field less 2.
C22_HeaderComplete ==
    header # <<>> =>
        /\ Len(header) = header_size
        /\ error # "struct.error"
        /\ (pc \in {"recv_payload", "decode"} => size = FromU16BE(header[5], header[6]) - 2)

\* the 16-bit big-endian word at bytes i, i + 1 of the payload decoded
WordAt(i) == rsData[i] * 256 + rsData[i + 1]

\* C23: a payload whose function-code byte f has the high bit set decodes to
\* error = TRUE with function code f mod 128 and no registers, whatever its
\* register count, the two bytes after the count being the check; one with
\* the high bit clear decodes to error = FALSE with the registers base ..
\* base + count - 1 taken in ascending order from the consecutive 16-bit
\* words after the count, the check following them.
C23_ErrorFlagAndRegisters ==
    rsState = "decoded" =>
        LET f == rsData[20]
            r == rsResult.resp
        IN  /\ rsResult.exc = "none"
            /\ r.base_register = WordAt(31)
            /\ r.register_count = WordAt(33)
            /\ IF f >= 128
               THEN /\ r.error
                    /\ r.function_code = f - 128
                    /\ DOMAIN r.register = {}
                    /\ r.check = WordAt(35)
                    /\ Len(rsData) = 36
               ELSE /\ ~r.error
                    /\ r.function_code = f
                    /\ DOMAIN r.register =
                          r.base_register .. (r.base_register + r.register_count - 1)
                    /\ \A a \in DOMAIN r.register :
                          r.register[a] = WordAt(35 + 2 * (a - r.base_register))
                    /\ r.check = WordAt(35 + 2 * r.register_count)
                    /\ Len(rsData) = 36 + 2 * r.register_count

C23_Witness ==
    /\ rsState = "decoded" /\ rsData[20] = 131
    /\ rsResult.resp.error /\ rsResult.resp.function_code = 3
    /\ rsResult.resp.register_count = 60 /\ rsResult.resp.base_register = 120
    /\ rsResult.resp.register = NoRegisters /\ rsResult.resp.check = 53717

\* C24: the decoding of a payload of fewer than 34 bytes raises an exception
\* and constructs no response: there is no register map or other field of
\* it to convert.  (A payload that ends before its registers or its check
\* do fails likewise.)
C24_TruncatedFails ==
    rsState = "decoded" =>
        /\ (Len(rsData) < 34 =>
                rsResult.exc = "struct.error" /\ rsResult.resp = NoResponse)
        /\ (rsResult.exc = "none" =>
                Len(rsData) = 36 + 2 * (IF rsResult.resp.error THEN 0
                                        ELSE rsResult.resp.register_count))
        /\ (rsResult.exc # "none" => rsResult.resp = NoResponse)

C24_Witness ==
    /\ rsState = "decoded" /\ Len(rsData) = 33 /\ rsData[20] = 4
    /\ rsResult.exc = "struct.error" /\ rsResult.resp = NoResponse

\* the addresses of block b of the plan
BlockRange(b) == Plan[b][2] .. (Plan[b][2] + Plan[b][3] - 1)

\* the primary definitions at the addresses of block b list companions of
\* the same block only
BlockHoldsCompanions(b) ==
    \A a \in BlockRange(b) :
        LET table == Converter(b - 1)
        IN  Defined(table, a) /\ IsPrimary(table[a + 1]) =>
                Companions(table[a + 1]) \subseteq BlockRange(b)

\* C25: no value of several registers straddles a block boundary of the
\* polling plan, and the conversion of a block whose response is not an
\* error and carries the range requested finds every register it reads: it
\* does not end in KeyError.
C25_NoStraddling ==
    [][ pc = "convert" =>
            /\ \A b \in DOMAIN Plan : BlockHoldsCompanions(b)
            /\ (~response.error /\ BlockRange(blk + 1) \subseteq DOMAIN response.register
                    => error' # "KeyError") ]_vars

C25_Witness ==
    /\ pc = "send" /\ blk = 2 /\ converted[2] = <<4, 60, 119>>
    /\ \E i \in DOMAIN metrics : metrics[i].name = "battery_serial_number"
    /\ \E i \in DOMAIN metrics : metrics[i].name = "battery_design_capacity_2"

\* the range the response received says it carries
EchoedBase == FromU16BE(payload[31], payload[32])
EchoedCount == FromU16BE(payload[33], payload[34])

\* the primary addresses of the block being handled
PrimaryAddresses ==
    {a \in BlockRange(blk + 1) : IsPrimary(Converter(blk)[a + 1])}

\* C26: the register map of a response is keyed by the range the response
\* echoes, address a holding the word the response carries for a; metrics
\* are appended for a block only from a response that is not an error and
\* whose range holds the whole block, and then they are those computed from
\* the words of the block's own addresses; when the map lacks a primary
\* address of the block, or a response that is not an error lacks any
\* address of it, the cycle ends in KeyError and appends no metric.
C26_OwnAddressOnly ==
    [][ /\ (/\ pc = "decode" /\ Len(payload) >= 36 /\ payload[20] < 128
            /\ ~(BlockRange(blk + 1) \subseteq EchoedBase .. (EchoedBase + EchoedCount - 1))
            => pc' = "raised" /\ error' = "KeyError" /\ metrics' = metrics)
        /\ (pc = "convert" =>
            /\ DOMAIN response.register =
                  (IF response.error THEN {}
                   ELSE EchoedBase .. (EchoedBase + EchoedCount - 1))
            /\ \A a \in DOMAIN response.register :
                  response.register[a] =
                      FromU16BE(payload[35 + 2 * (a - EchoedBase)],
                                payload[36 + 2 * (a - EchoedBase)])
            /\ (Len(metrics') > Len(metrics) =>
                    /\ ~response.error
                    /\ BlockRange(blk + 1) \subseteq DOMAIN response.register
                    /\ \A a \in BlockRange(blk + 1) :
                          response.register[a] = DeviceRegister(image, Plan[blk + 1][1], a))
            /\ (~(PrimaryAddresses \subseteq DOMAIN response.register) =>
                    /\ pc' = "raised" /\ error' = "KeyError"
                    /\ metrics' = metrics)) ]_vars

\* the transaction that was answered with the range one address later has
\* ended in KeyError
C26_Witness ==
    /\ pc = "raised" /\ error = "KeyError" /\ blk = 1
    /\ Len(payload) = 156 /\ payload[20] = 4
    /\ FromU16BE(payload[31], payload[32]) = 61 /\ request.base_register = 60
    /\ converted = << <<4, 0, 59>> >>

\* the steps of fetchMetrics inside its with block
InFetch == {"connect", "send", "recv_header", "recv_payload", "decode", "convert"}

\* C27: a socket is opened only when a cycle starts, at most one per cycle
\* and exactly one when the cycle gets as far as fetchMetrics; every request
\* of the cycle goes over it; it is open only while fetchMetrics is inside
\* its with block and is closed when fetchMetrics returns or fails at any
\* step, so none is open when the next cycle starts.
C27_OneConnectionPerCycle ==
    [][ /\ (sockOpen' /\ ~sockOpen => cycle' = cycle + 1 /\ pc' = "connect")
        /\ (cycle' # cycle => ~sockOpen /\ (pc' \in InFetch => sockOpen'))
        /\ (sockOpen' => pc' \in InFetch)
        /\ (pc' \notin InFetch => ~sockOpen')
        /\ (pc \in InFetch /\ pc' \notin InFetch => sockOpen /\ ~sockOpen')
        /\ (Len(sent') > Len(sent) => sockOpen /\ cycle' = cycle) ]_vars

C27_Witness ==
    /\ cycle = 2 /\ pc = "raised" /\ error = "RuntimeError" /\ ~sockOpen
    /\ Len(sent) = 4 /\ promFile # "absent"

\* the name a metric is printed under: the name and, unless scalar, the unit
Rendered(m) == <<m.name, m.unit>>

\* C28: in the metrics of a successful cycle that started with none, no two
\* are printed under the same name.
C28_DistinctRenderedNames ==
    pc = "rename" /\ carried = 0 =>
        \A i \in DOMAIN metrics : \A j \in DOMAIN metrics :
            i < j => Rendered(metrics[i]) # Rendered(metrics[j])

\* the exceptions a cycle can fail with that are IOError (OSError) or a
\* subclass of it, and the others
IoFailures ==
    {"OSError", "FileNotFoundError", "IsADirectoryError", "ConnectionRefusedError",
     "ConnectionResetError", "BrokenPipeError"}
OtherFailures ==
    {"struct.error", "KeyError", "RuntimeError", "UnicodeDecodeError", "AssertionError",
     "TypeError"}

\* a step that ends report() with a failure
ReportFails == pc' \in {"caught", "raised"} /\ <<pc, cycle>> # <<pc', cycle'>>

\* what report() does with a failure: an I/O or connection error is caught
\* and report() returns, any other exception is raised to the caller; the
\* output file stays as it was, and a failure inside fetchMetrics leaves
\* nothing printed
ReportFailureHandling ==
    ReportFails =>
        (/\ error' \in IoFailures \union OtherFailures
         /\ (error' \in IoFailures => pc' = "caught")
         /\ (error' \in OtherFailures => pc' = "raised")
         /\ promFile' = promFile
         /\ (pc \in InFetch => ~printed' /\ ~fetched' /\ tmpFile' = tmpFile))

\* C29: a report() that fails with an I/O or connection error ends with the
\* exception caught in report(), which returns; a report() that fails with
\* any other exception (RuntimeError from a conversion, KeyError for a
\* missing register, struct.error for a malformed header) ends with it raised
\* to the caller; in both cases the output file is not renamed, and a failure
\* inside fetchMetrics leaves nothing printed.  For the instance main()
\* makes, the exit status is 0 in the first case and not 0 in the second.
C29_FailureHandling ==
    [][ (ReportFailureHandling)
        /\ (cls = "__init__.py" /\ ReportFails =>
               (ExitStatus(pc') = 0 <=> error' \in IoFailures)) ]_vars

C29_Witness ==
    /\ cls = "prometheus.py" /\ cycle = 2 /\ pc = "raised" /\ error = "RuntimeError"
    /\ ~printed /\ promFile # "absent" /\ promFile[1] = ReportLine(1) /\ tmpFile = <<>>

\* the case of C29 that main() reaches: the connection is reset, report()
\* returns and the exit status is 0
MainCaughtExitZero ==
    /\ cls = "__init__.py" /\ pc = "caught" /\ error = "ConnectionResetError"
    /\ ExitStatus(pc) = 0 /\ Len(sent) = 2 /\ promFile = "absent" /\ tmpFile = <<>>
=============================================================================
